---------------------------- MODULE Spec2Model ----------------------------
(***************************************************************************)
(* A model of the mapita dashboards: the Data Service (backend.py), its    *)
(* client (frontend.py) and the standalone dashboard (app.py).             *)
(*                                                                         *)
(* The state is one interaction at a time: a request in flight, the file   *)
(* the file system holds at the request's resolved path, the response, and *)
(* what the caller made of it.  The Data Service keeps no state between    *)
(* requests, so an interaction starts from "idle" and ends in "done".      *)
(*                                                                         *)
(* Conventions of the data representation:                                 *)
(*   - a byte is a number in 0..255, a byte string is a sequence of bytes; *)
(*   - base64 text is a sequence of one-character strings;                 *)
(*   - an integer raster cell is the integer it holds; a float32 cell is   *)
(*     its IEEE-754 fields [s, e, m] (sign, 8-bit exponent, 23-bit         *)
(*     mantissa); a float64 cell is its 8 raw bytes [f64 |-> bytes];       *)
(*   - a 2-D array is [dtype, shape, rows], rows a sequence of rows;       *)
(*   - os.path.join is the POSIX one (separator "/").                      *)
(***************************************************************************)
EXTENDS Integers, Sequences, FiniteSets, TLC

(***************************************************************************)
(* Bounds of the model.                                                    *)
(***************************************************************************)
\* A raster has at most MaxCells cells (rows * cols <= MaxCells).
MaxCells == 4
\* A vector file has at most MaxRecords records.
MaxRecords == 2
\* A payload that the Data Service did not build holds at most
\* MaxForeignCells cells.
MaxForeignCells == 2
\* The platform's answers to one run of a screen hold at most MaxImages
\* images in all.
MaxImages == 3

(***************************************************************************)
(* Values shared by the Python code: None, and a raised exception.         *)
(***************************************************************************)
None == "None"
\* The outcome of a call that can raise: a value, or the exception raised.
Ok(v) == [ok |-> TRUE, val |-> v]
Raise(e) == [ok |-> FALSE, exc |-> e]

(***************************************************************************)
(* numpy dtypes.  rasterio names a band's dtype with one of these strings. *)
(***************************************************************************)
DTypes == {"uint8", "int16", "int32", "float32", "float64"}

\* np.dtype(s).itemsize; 0 stands for "data type not understood".
ItemSize(dtype) ==
    CASE dtype = "uint8"   -> 1
      [] dtype = "int16"   -> 2
      [] dtype = "int32"   -> 4
      [] dtype = "float32" -> 4
      [] dtype = "float64" -> 8
      [] OTHER             -> 0

Pow256(i) == CASE i = 0 -> 1 [] i = 1 -> 256 [] i = 2 -> 65536 [] OTHER -> 16777216

\* The little-endian bytes of one cell (two's complement for integers:
\* \div floors and % is non-negative, so no 2^w is needed).
ElemBytes(v, dtype) ==
    CASE dtype = "float32" ->
            << v.m % 256,
               (v.m \div 256) % 256,
               (v.e % 2) * 128 + (v.m \div 65536),
               v.s * 128 + (v.e \div 2) >>
      [] dtype = "float64" -> v.f64
      [] OTHER -> [i \in 1..ItemSize(dtype) |-> (v \div Pow256(i - 1)) % 256]

\* The cell that the bytes b (ItemSize(dtype) of them) hold.
BytesElem(b, dtype) ==
    CASE dtype = "uint8"   -> b[1]
      [] dtype = "int16"   -> b[1] + 256 * (IF b[2] >= 128 THEN b[2] - 256 ELSE b[2])
      [] dtype = "int32"   -> b[1] + 256 * b[2] + 65536 * b[3]
                              + 16777216 * (IF b[4] >= 128 THEN b[4] - 256 ELSE b[4])
      [] dtype = "float32" -> [s |-> b[4] \div 128,
                               e |-> (b[4] % 128) * 2 + (b[3] \div 128),
                               m |-> (b[3] % 128) * 65536 + b[2] * 256 + b[1]]
      [] dtype = "float64" -> [f64 |-> b]

RECURSIVE Flatten(_)
\* ndarray.flatten() / the C (row-major) order of the cells.
Flatten(rows) ==
    IF rows = <<>> THEN <<>> ELSE Head(rows) \o Flatten(Tail(rows))

RECURSIVE CellsBytes(_, _)
CellsBytes(cells, dtype) ==
    IF cells = <<>> THEN <<>>
    ELSE ElemBytes(Head(cells), dtype) \o CellsBytes(Tail(cells), dtype)

\* Mutant of tobytes: the cells in column-major (Fortran) order.
tobytes_column_major(data) ==
    CellsBytes(Flatten([c \in 1..data.shape[2] |->
                          [r \in 1..data.shape[1] |-> data.rows[r][c]]]),
               data.dtype)

\* ndarray.tobytes(): the raw bytes of the array in row-major order.
tobytes(data) == CellsBytes(Flatten(data.rows), data.dtype)

(***************************************************************************)
(* base64 (RFC 4648, the standard alphabet, "=" padding).                  *)
(***************************************************************************)
B64Alphabet ==
    << "A","B","C","D","E","F","G","H","I","J","K","L","M","N","O","P",
       "Q","R","S","T","U","V","W","X","Y","Z","a","b","c","d","e","f",
       "g","h","i","j","k","l","m","n","o","p","q","r","s","t","u","v",
       "w","x","y","z","0","1","2","3","4","5","6","7","8","9","+","/" >>

B64Char(sextet) == B64Alphabet[sextet + 1]

B64Index(c) == (CHOOSE i \in 1..64 : B64Alphabet[i] = c) - 1

IsB64Char(c) == \E i \in 1..64 : B64Alphabet[i] = c

RECURSIVE b64encode(_)
\* base64.b64encode(data_bytes).decode('utf-8')
b64encode(b) ==
    IF Len(b) = 0 THEN <<>>
    ELSE IF Len(b) = 1 THEN
        << B64Char(b[1] \div 4), B64Char((b[1] % 4) * 16), "=", "=" >>
    ELSE IF Len(b) = 2 THEN
        << B64Char(b[1] \div 4),
           B64Char((b[1] % 4) * 16 + (b[2] \div 16)),
           B64Char((b[2] % 16) * 4), "=" >>
    ELSE
        << B64Char(b[1] \div 4),
           B64Char((b[1] % 4) * 16 + (b[2] \div 16)),
           B64Char((b[2] % 16) * 4 + (b[3] \div 64)),
           B64Char(b[3] % 64) >>
        \o b64encode(SubSeq(b, 4, Len(b)))

\* The bytes the sextets q (2, 3 or 4 of them) of one quad hold.
QuadBytes(q) ==
    IF Len(q) < 2 THEN <<>>
    ELSE IF Len(q) = 2 THEN << q[1] * 4 + (q[2] \div 16) >>
    ELSE IF Len(q) = 3 THEN
        << q[1] * 4 + (q[2] \div 16), (q[2] % 16) * 16 + (q[3] \div 4) >>
    ELSE
        << q[1] * 4 + (q[2] \div 16), (q[2] % 16) * 16 + (q[3] \div 4),
           (q[3] % 4) * 64 + q[4] >>

RECURSIVE B64Scan(_, _, _, _, _)
\* binascii.a2b_base64, not strict: characters outside the alphabet are
\* skipped, a completed pad ends the input, an unfinished quad is an error.
B64Scan(s, i, q, pads, out) ==
    IF i > Len(s) THEN (IF q = <<>> THEN Ok(out) ELSE Raise("binascii.Error"))
    ELSE IF s[i] = "=" THEN
        IF Len(q) >= 2 /\ Len(q) + pads + 1 >= 4
        THEN Ok(out \o QuadBytes(q))
        ELSE B64Scan(s, i + 1, q, pads + 1, out)
    ELSE IF IsB64Char(s[i]) THEN
        IF Len(q) = 3
        THEN B64Scan(s, i + 1, <<>>, 0, out \o QuadBytes(Append(q, B64Index(s[i]))))
        ELSE B64Scan(s, i + 1, Append(q, B64Index(s[i])), 0, out)
    ELSE B64Scan(s, i + 1, q, pads, out)

\* base64.b64decode(data_b64): the bytes, or binascii.Error raised.
b64decode(s) == B64Scan(s, 1, <<>>, 0, <<>>)

(***************************************************************************)
(* numpy: frombuffer and reshape.                                          *)
(***************************************************************************)
RECURSIVE BytesCells(_, _)
BytesCells(b, dtype) ==
    IF b = <<>> THEN <<>>
    ELSE << BytesElem(SubSeq(b, 1, ItemSize(dtype)), dtype) >>
         \o BytesCells(SubSeq(b, ItemSize(dtype) + 1, Len(b)), dtype)

\* np.dtype(x): None is float64, an unknown string is an error.
NpDtype(x) == IF x = None THEN "float64" ELSE x

\* np.frombuffer(data_bytes, dtype=dtype_str): the flat cells, or the
\* exception raised (data type not understood; buffer size not a multiple
\* of the element size).
frombuffer(b, dtype_str) ==
    LET dt == NpDtype(dtype_str) IN
    IF ItemSize(dt) = 0 THEN Raise("TypeError")
    ELSE IF Len(b) % ItemSize(dt) # 0 THEN Raise("ValueError")
    ELSE Ok([dtype |-> dt, cells |-> BytesCells(b, dt)])

\* The shape reshape() gives: one dimension of -1 is inferred.
ReshapeTarget(n, shape) ==
    IF shape[1] = -1 /\ shape[2] = -1 THEN Raise("ValueError")
    ELSE IF shape[1] < -1 \/ shape[2] < -1 THEN Raise("ValueError")
    ELSE IF shape[1] = -1 THEN
        (IF shape[2] > 0 /\ n % shape[2] = 0
         THEN Ok(<< n \div shape[2], shape[2] >>) ELSE Raise("ValueError"))
    ELSE IF shape[2] = -1 THEN
        (IF shape[1] > 0 /\ n % shape[1] = 0
         THEN Ok(<< shape[1], n \div shape[1] >>) ELSE Raise("ValueError"))
    ELSE IF shape[1] * shape[2] = n THEN Ok(shape)
    ELSE Raise("ValueError")

\* arr.reshape(shape): the 2-D array in row-major order, or ValueError.
reshape(flat, shape) ==
    LET t == ReshapeTarget(Len(flat.cells), shape) IN
    IF ~t.ok THEN t
    ELSE Ok([dtype |-> flat.dtype,
             shape |-> t.val,
             rows  |-> [r \in 1..t.val[1] |->
                          [c \in 1..t.val[2] |->
                             flat.cells[(r - 1) * t.val[2] + c]]]])

(***************************************************************************)
(* The files of the data directory.  A path holds no file, a file that the *)
(* reader cannot open (corrupt, or of another kind), a single-band raster  *)
(* or a vector layer.                                                      *)
(***************************************************************************)
\* The cell values the model draws for each dtype.
CellValues(dtype) ==
    CASE dtype = "uint8"   -> {1, 128, 255}
      [] dtype = "int16"   -> {-32768, 1, 32767}
      [] dtype = "int32"   -> {-2, 258, 2147483647}
      [] dtype = "float32" -> {[s |-> 0, e |-> 127, m |-> 0],          \* 1.0
                               [s |-> 1, e |-> 0,   m |-> 0],          \* -0.0
                               [s |-> 0, e |-> 255, m |-> 4194304]}    \* NaN
      [] dtype = "float64" -> {[f64 |-> << 0, 0, 0, 0, 0, 0, 240, 63 >>],   \* 1.0
                               [f64 |-> << 0, 0, 0, 0, 0, 0, 0, 128 >>],    \* -0.0
                               [f64 |-> << 0, 0, 0, 0, 0, 0, 248, 127 >>]}  \* NaN

\* The (rows, cols) of the rasters drawn: at least one cell, at most MaxCells.
Shapes == {sh \in (1..MaxCells) \X (1..MaxCells) : sh[1] * sh[2] <= MaxCells}

\* Every 2-D array of the bounds.
Arrays ==
    UNION {UNION {{[dtype |-> dt, shape |-> sh, rows |-> rw] :
                     rw \in [1..sh[1] -> [1..sh[2] -> CellValues(dt)]]} :
                  sh \in Shapes} : dt \in DTypes}

AbsentFile == [kind |-> "absent"]
CorruptFile == [kind |-> "corrupt"]
RasterFile(a) == [kind |-> "raster", band1 |-> a]

RasterTransform == << 1, 0, 0, 0, -1, 0, 0, 0, 1 >>

\* What a path that should hold a raster can hold.
RasterPathStates == {AbsentFile, CorruptFile} \cup {RasterFile(a) : a \in Arrays}

\* The CRS a vector file can declare: none, the target one, another one
\* that reprojects, and one for which no transformation to EPSG:4326
\* exists (to_crs raises).
NoCRS == "None"
CRSs == {NoCRS, "EPSG:4326", "EPSG:32628", "LOCAL_CS"}
Reprojectable(crs) == crs # "LOCAL_CS"

\* A geometry is what it is and the CRS its coordinates are expressed in;
\* a record may have no geometry.
NullGeometry == [null |-> TRUE]
Geometry(id, crs) == [null |-> FALSE, id |-> id, crs |-> crs]

\* A datetime64 cell: a timestamp, or NaT.
NaT == [nat |-> TRUE]
Timestamp(y, mo, d, h, mi, sec) ==
    [nat |-> FALSE, y |-> y, mo |-> mo, d |-> d, h |-> h, mi |-> mi, sec |-> sec]
Timestamps == {NaT, Timestamp(2020, 1, 2, 3, 4, 5)}

\* The records of a vector file with n records: each has a geometry or
\* none, and a value of the datetime column when the file has one.
VectorRows(n, crs, dated) ==
    [1..n -> {[geometry |-> g, fecha |-> t] :
                g \in {NullGeometry, Geometry("G", crs)},
                t \in IF dated THEN Timestamps ELSE {NaT}}]

VectorFile(crs, dated, rows) ==
    [kind |-> "vector", crs |-> crs, dated |-> dated, rows |-> rows]

VectorFiles ==
    UNION {UNION {UNION {{VectorFile(crs, dated, rows) :
                            rows \in VectorRows(n, crs, dated)} :
                         n \in 0..MaxRecords} :
                  dated \in BOOLEAN} : crs \in CRSs}

\* What a path that should hold a vector layer can hold.
VectorPathStates == {AbsentFile, CorruptFile} \cup VectorFiles

\* os.path.exists(path), for the file the path holds.
os_path_exists(file) == file.kind # "absent"

\* os.path.join(a, b)
os_path_join(a, b) == a \o "/" \o b

(***************************************************************************)
(* Vector Access of the Data Service (backend.py).                         *)
(***************************************************************************)
Pad2(n) == IF n < 10 THEN "0" \o ToString(n) ELSE ToString(n)

\* Mutant of strftime: the fields are not zero-padded.
strftime_unpadded(t) ==
    IF t.nat THEN [null |-> TRUE]
    ELSE [null |-> FALSE,
          str |-> ToString(t.y) \o "-" \o ToString(t.mo) \o "-" \o ToString(t.d) \o " "
                  \o ToString(t.h) \o ":" \o ToString(t.mi) \o ":" \o ToString(t.sec)]

\* Series.dt.strftime('%Y-%m-%d %H:%M:%S') of one cell: NaT stays missing.
strftime(t) ==
    IF t.nat THEN [null |-> TRUE]
    ELSE [null |-> FALSE,
          str |-> ToString(t.y) \o "-" \o Pad2(t.mo) \o "-" \o Pad2(t.d) \o " "
                  \o Pad2(t.h) \o ":" \o Pad2(t.mi) \o ":" \o Pad2(t.sec)]

\* The columns of the GeoDataFrame read from a file, with their dtypes.
FileColumns(file) ==
    IF file.dated THEN [c \in {"ADM3_EN", "fecha"} |->
                          IF c = "fecha" THEN "datetime64[ns]" ELSE "object"]
    ELSE [c \in {"ADM3_EN"} |-> "object"]

\* gpd.read_file(filepath): the GeoDataFrame, or the exception raised when
\* the path holds no vector layer.
read_file(file) ==
    IF file.kind # "vector" THEN Raise("DriverError")
    ELSE Ok([crs |-> file.crs,
             columns |-> FileColumns(file),
             rows |-> [i \in 1..Len(file.rows) |->
                [geometry |-> file.rows[i].geometry,
                 props |-> [c \in DOMAIN FileColumns(file) |->
                    IF c = "fecha" THEN file.rows[i].fecha
                    ELSE [null |-> FALSE, str |-> "D" \o ToString(i)]]]]])

\* gdf.to_crs(epsg=4326): every geometry is re-expressed in EPSG:4326, or
\* the exception raised when no transformation exists.
to_crs(gdf) ==
    IF ~Reprojectable(gdf.crs) THEN Raise("ProjError")
    ELSE Ok([gdf EXCEPT !.crs = "EPSG:4326",
             !.rows = [i \in 1..Len(gdf.rows) |->
                 IF gdf.rows[i].geometry.null THEN gdf.rows[i]
                 ELSE [gdf.rows[i] EXCEPT !.geometry.crs = "EPSG:4326"]]])

\* backend.py lines 53-60: the CRS of the layer is set or converted.
NormalizeCRS(gdf) ==
    IF gdf.crs = NoCRS THEN [gdf EXCEPT !.crs = "EPSG:4326"]
    ELSE IF to_crs(gdf).ok THEN to_crs(gdf).val
    ELSE gdf

\* pd.api.types.is_datetime64_any_dtype(gdf[col])
is_datetime64_any_dtype(dtype) == dtype = "datetime64[ns]"

\* backend.py lines 63-65: every datetime column becomes text.
DatetimeToString(gdf) ==
    [gdf EXCEPT
       !.columns = [c \in DOMAIN gdf.columns |->
           IF is_datetime64_any_dtype(gdf.columns[c]) THEN "object"
           ELSE gdf.columns[c]],
       !.rows = [i \in 1..Len(gdf.rows) |->
           [gdf.rows[i] EXCEPT !.props = [c \in DOMAIN gdf.columns |->
               IF is_datetime64_any_dtype(gdf.columns[c])
               THEN strftime(gdf.rows[i].props[c])
               ELSE gdf.rows[i].props[c]]]]]

\* Mutant of to_json: the records without a geometry are left out.
to_json_skip_null_geometry(gdf) ==
    [type |-> "FeatureCollection",
     features |-> SelectSeq([i \in 1..Len(gdf.rows) |->
                                [type |-> "Feature",
                                 id |-> ToString(i - 1),
                                 properties |-> gdf.rows[i].props,
                                 geometry |-> gdf.rows[i].geometry]],
                            LAMBDA f : ~f.geometry.null)]

\* json.loads(gdf.to_json()): one feature per record, in order.
to_json(gdf) ==
    [type |-> "FeatureCollection",
     features |-> [i \in 1..Len(gdf.rows) |->
        [type |-> "Feature",
         id |-> ToString(i - 1),
         properties |-> gdf.rows[i].props,
         geometry |-> gdf.rows[i].geometry]]]

\* if gdf.empty: logger.warning(...): the layer read has no record.
EmptyLayerLog(gdf) ==
    IF Len(gdf.rows) = 0
    THEN << [level |-> "warning", text |-> "no contiene geometrías o está vacío"] >>
    ELSE << >>

\* load_shapefile_as_geojson(filepath), for the file the path holds: the
\* GeoJSON dict returned (val), or the exception raised.  gdf is the
\* function's local layer when it returns (what to_json serialises), log
\* what it logged about an empty layer.
load_shapefile_as_geojson(file) ==
    IF ~read_file(file).ok THEN read_file(file)
    ELSE LET gdf == DatetimeToString(NormalizeCRS(read_file(file).val)) IN
         [ok |-> TRUE, val |-> to_json(gdf), gdf |-> gdf,
          log |-> EmptyLayerLog(read_file(file).val)]

(***************************************************************************)
(* Raster Access and the Transfer Codec of the Data Service (backend.py).  *)
(***************************************************************************)
\* src.profile of an open raster.
Profile(file) ==
    [crs |-> "EPSG:4326", transform |-> RasterTransform,
     dtype |-> file.band1.dtype, nodata |-> None, driver |-> "GTiff",
     count |-> 1, width |-> file.band1.shape[2], height |-> file.band1.shape[1]]

\* Mutant of load_raster_as_base64: shape is (cols, rows).
load_raster_as_base64_shape_swapped(file) ==
    IF file.kind # "raster" THEN Raise("RasterioIOError")
    ELSE Ok([base64_data |-> b64encode(tobytes(file.band1)),
             shape |-> << file.band1.shape[2], file.band1.shape[1] >>,
             metadata |-> Profile(file)])

\* load_raster_as_base64(filepath), for the file the path holds: the
\* payload dict, or the exception rasterio.open raises.
load_raster_as_base64(file) ==
    IF file.kind # "raster" THEN Raise("RasterioIOError")
    ELSE LET data == file.band1
             profile == Profile(file)
         IN Ok([base64_data |-> b64encode(tobytes(data)),
                shape |-> data.shape,
                metadata |-> [crs |-> profile.crs,
                              transform |-> profile.transform,
                              dtype |-> profile.dtype,
                              nodata |-> profile.nodata,
                              driver |-> profile.driver,
                              count |-> profile.count,
                              width |-> profile.width,
                              height |-> profile.height]])

(***************************************************************************)
(* The endpoints of the Data Service (backend.py).  Each takes the file    *)
(* the file system holds at the path it resolves and gives                 *)
(*   path:   the path resolved,                                            *)
(*   exists: what os.path.exists answered,                                 *)
(*   access: whether the Access component was called,                      *)
(*   out:    the value returned, or the exception that left the handler.   *)
(***************************************************************************)
\* Mutant of ErrorBody: the message does not name the path.
ErrorBody_without_path(path) == [error |-> "No se encontró el archivo"]

\* The dict an endpoint returns when its path holds no file.
ErrorBody(path) == [error |-> "No se encontró " \o path]

get_districts(file) ==
    LET shp_path == os_path_join("Admin_layers", "Assaba_Districts_layer.shp") IN
    IF ~os_path_exists(file)
    THEN [path |-> shp_path, exists |-> FALSE, access |-> FALSE,
          out |-> Ok(ErrorBody(shp_path))]
    ELSE [path |-> shp_path, exists |-> TRUE, access |-> TRUE,
          out |-> load_shapefile_as_geojson(file)]

get_region(file) ==
    LET shp_path == os_path_join("Admin_layers", "Assaba_Region_layer.shp") IN
    IF ~os_path_exists(file)
    THEN [path |-> shp_path, exists |-> FALSE, access |-> FALSE,
          out |-> Ok(ErrorBody(shp_path))]
    ELSE [path |-> shp_path, exists |-> TRUE, access |-> TRUE,
          out |-> load_shapefile_as_geojson(file)]

get_roads(file) ==
    LET shp_path == os_path_join("Streamwater_Line_Road_Network", "Main_Road.shp") IN
    IF ~os_path_exists(file)
    THEN [path |-> shp_path, exists |-> FALSE, access |-> FALSE,
          out |-> Ok(ErrorBody(shp_path))]
    ELSE [path |-> shp_path, exists |-> TRUE, access |-> TRUE,
          out |-> load_shapefile_as_geojson(file)]

get_streams(file) ==
    LET shp_path == os_path_join("Streamwater_Line_Road_Network", "Streamwater.shp") IN
    IF ~os_path_exists(file)
    THEN [path |-> shp_path, exists |-> FALSE, access |-> FALSE,
          out |-> Ok(ErrorBody(shp_path))]
    ELSE [path |-> shp_path, exists |-> TRUE, access |-> TRUE,
          out |-> load_shapefile_as_geojson(file)]

get_landcover(year, file) ==
    LET tif_path == os_path_join("Modis_Land_Cover_Data", ToString(year) \o "LCT.tif") IN
    IF ~os_path_exists(file)
    THEN [path |-> tif_path, exists |-> FALSE, access |-> FALSE,
          out |-> Ok(ErrorBody(tif_path))]
    ELSE [path |-> tif_path, exists |-> TRUE, access |-> TRUE,
          out |-> load_raster_as_base64(file)]

get_gpp(year, file) ==
    LET tif_path == os_path_join("MODIS_Gross_Primary_Production_GPP", ToString(year) \o "_GP.tif") IN
    IF ~os_path_exists(file)
    THEN [path |-> tif_path, exists |-> FALSE, access |-> FALSE,
          out |-> Ok(ErrorBody(tif_path))]
    ELSE [path |-> tif_path, exists |-> TRUE, access |-> TRUE,
          out |-> load_raster_as_base64(file)]

get_precip(year, file) ==
    LET tif_path == os_path_join("Climate_Precipitation_Data", ToString(year) \o "R.tif") IN
    IF ~os_path_exists(file)
    THEN [path |-> tif_path, exists |-> FALSE, access |-> FALSE,
          out |-> Ok(ErrorBody(tif_path))]
    ELSE [path |-> tif_path, exists |-> TRUE, access |-> TRUE,
          out |-> load_raster_as_base64(file)]

\* Mutant of get_population: the Access component is called without the
\* existence check.
get_population_unchecked(year, file) ==
    [path |-> os_path_join("Gridded_Population_Density_Data",
                           "mrt_pd_" \o ToString(year) \o "_1km.tif"),
     exists |-> TRUE, access |-> TRUE, out |-> load_raster_as_base64(file)]

get_population(year, file) ==
    LET tif_path == os_path_join("Gridded_Population_Density_Data", "mrt_pd_" \o ToString(year) \o "_1km.tif") IN
    IF ~os_path_exists(file)
    THEN [path |-> tif_path, exists |-> FALSE, access |-> FALSE,
          out |-> Ok(ErrorBody(tif_path))]
    ELSE [path |-> tif_path, exists |-> TRUE, access |-> TRUE,
          out |-> load_raster_as_base64(file)]

VectorEndpoints == {"/admin/districts", "/admin/region", "/roads", "/water"}
RasterEndpoints == {"/rasters/landcover", "/rasters/gpp", "/rasters/precip", "/rasters/pop"}
Endpoints == VectorEndpoints \cup RasterEndpoints

\* The query parameter of a raster endpoint: year: int = 2010.
YearParam(params) == IF "year" \in DOMAIN params THEN params.year ELSE 2010

\* The route table of the FastAPI application (the @app.get decorators).
Route(endpoint, params, file) ==
    CASE endpoint = "/admin/districts"   -> get_districts(file)
      [] endpoint = "/admin/region"      -> get_region(file)
      [] endpoint = "/roads"             -> get_roads(file)
      [] endpoint = "/water"             -> get_streams(file)
      [] endpoint = "/rasters/landcover" -> get_landcover(YearParam(params), file)
      [] endpoint = "/rasters/gpp"       -> get_gpp(YearParam(params), file)
      [] endpoint = "/rasters/precip"    -> get_precip(YearParam(params), file)
      [] endpoint = "/rasters/pop"       -> get_population(YearParam(params), file)

\* What FastAPI sends for a handler's outcome: the returned dict as JSON
\* with status 200, or 500 Internal Server Error for an exception that no
\* handler caught.
HttpResponse(status, json, body) ==
    [kind |-> "http", status |-> status, json |-> json, body |-> body]

FastAPIResponse(out) ==
    IF out.ok THEN HttpResponse(200, TRUE, out.val)
    ELSE HttpResponse(500, FALSE, [text |-> "Internal Server Error"])

(***************************************************************************)
(* The cross-origin configuration (backend.py, app.add_middleware).        *)
(***************************************************************************)
allow_origins == << "" >>

InList(x, list) == \E i \in 1..Len(list) : list[i] = x

\* CORSMiddleware admits an origin when the list holds "*" or the origin.
is_allowed_origin(origin) == InList("*", allow_origins) \/ InList(origin, allow_origins)

(***************************************************************************)
(* The client of the Data Service (frontend.py).  resp is the outcome of   *)
(* requests.get: an HTTP response, or the exception it raised.             *)
(***************************************************************************)
API_URL == "http://34.70.250.5"

NetworkException(e) == [kind |-> "exception", exc |-> e]

Message(level, text) == [level |-> level, text |-> text]

\* except Exception as e: st.error(...); return None, None
ClientFailed(url, e) ==
    [ok |-> FALSE,
     ui |-> << Message("error", "No se pudo conectar con " \o url \o ": " \o e) >>]

\* metadata.get("dtype", "int16")
MetadataDtype(metadata) ==
    IF "dtype" \in DOMAIN metadata THEN metadata.dtype ELSE "int16"

\* get_raster(endpoint, params), from the outcome of its requests.get on:
\* (arr, metadata) when ok, (None, None) otherwise; ui is what it displayed
\* and dtype_str the dtype it handed to np.frombuffer.
get_raster(endpoint, resp) ==
    LET url == API_URL \o endpoint IN
    IF resp.kind = "exception" THEN ClientFailed(url, resp.exc)
    ELSE IF resp.status # 200 THEN
        [ok |-> FALSE,
         ui |-> << Message("error", "Error " \o ToString(resp.status) \o " al llamar "
                                     \o url \o ": " \o resp.body.text) >>]
    ELSE IF ~resp.json THEN ClientFailed(url, "JSONDecodeError")
    ELSE LET result == resp.body IN
    IF "error" \in DOMAIN result THEN
        [ok |-> FALSE, ui |-> << Message("warning", result.error) >>]
    ELSE IF ~({"shape", "base64_data", "metadata"} \subseteq DOMAIN result)
    THEN ClientFailed(url, "KeyError")
    ELSE LET shape == result.shape
             metadata == result.metadata
             data_bytes == b64decode(result.base64_data)
             dtype_str == MetadataDtype(metadata)
         IN
    IF ~data_bytes.ok THEN ClientFailed(url, data_bytes.exc)
    ELSE IF ~frombuffer(data_bytes.val, dtype_str).ok
    THEN ClientFailed(url, frombuffer(data_bytes.val, dtype_str).exc)
    ELSE LET arr == reshape(frombuffer(data_bytes.val, dtype_str).val, shape) IN
    IF ~arr.ok THEN ClientFailed(url, arr.exc)
    ELSE [ok |-> TRUE, arr |-> arr.val, metadata |-> metadata,
          dtype_str |-> dtype_str, ui |-> << >>]

\* get_geojson(endpoint), from the outcome of its requests.get: the dict
\* returned ({} is the empty function) and what it displayed.
get_geojson(endpoint, resp) ==
    LET url == API_URL \o endpoint IN
    IF resp.kind = "exception" THEN
        [data |-> << >>,
         ui |-> << Message("error", "No se pudo conectar con " \o url \o ": " \o resp.exc) >>]
    ELSE IF resp.status # 200 THEN
        [data |-> << >>,
         ui |-> << Message("error", "Error " \o ToString(resp.status) \o " al llamar "
                                     \o url \o ": " \o resp.body.text) >>]
    ELSE IF ~resp.json THEN
        [data |-> << >>,
         ui |-> << Message("error", "No se pudo conectar con " \o url
                                     \o ": JSONDecodeError") >>]
    ELSE [data |-> resp.body, ui |-> << >>]

(***************************************************************************)
(* What the host at API_URL can answer when it is not, or not only, this   *)
(* Data Service (another deployment, a proxy, a tunnel's own page): an     *)
(* error status, a page that is not JSON, or a payload that is not the one *)
(* load_raster_as_base64 builds: its metadata carries no dtype, a null one *)
(* or one numpy does not know, its text is not base64, its shape does not  *)
(* match its bytes or leaves a dimension open (-1).                        *)
(***************************************************************************)
\* The record d without its key k.
DropKey(d, k) == [x \in DOMAIN d \ {k} |-> d[x]]

ForeignArrays == {a \in Arrays : a.shape[1] * a.shape[2] <= MaxForeignCells}

ForeignPayloads ==
    UNION {{[load_raster_as_base64(RasterFile(a)).val EXCEPT
                !.metadata = DropKey(@, "dtype")],
            [load_raster_as_base64(RasterFile(a)).val EXCEPT
                !.metadata.dtype = None],
            [load_raster_as_base64(RasterFile(a)).val EXCEPT
                !.metadata.dtype = "int24"],
            [load_raster_as_base64(RasterFile(a)).val EXCEPT
                !.base64_data = << "A" >>],
            [load_raster_as_base64(RasterFile(a)).val EXCEPT
                !.shape = << @[1] + 1, @[2] >>],
            [load_raster_as_base64(RasterFile(a)).val EXCEPT
                !.shape = << -1, @[2] >>]} : a \in ForeignArrays}

ForeignResponses ==
    {HttpResponse(404, FALSE, [text |-> "Not Found"]),
     HttpResponse(200, FALSE, [text |-> "<html></html>"])}
    \cup {HttpResponse(200, TRUE, p) : p \in ForeignPayloads}

(***************************************************************************)
(* The figures of a raster: plot_raster_and_hist of the two dashboards     *)
(* (app.py, frontend.py).  The heatmap takes a reversed view of the array  *)
(* and the histogram a flattened copy; neither writes to the array.        *)
(***************************************************************************)
\* Whether a cell is a number for the plotting library: NaN and the
\* infinities are serialised as null and are not counted.
IsFiniteCell(v, dtype) ==
    CASE dtype = "float32" -> v.e # 255
      [] dtype = "float64" -> ~(v.f64[8] % 128 = 127 /\ v.f64[7] \div 16 = 15)
      [] OTHER -> TRUE

\* Mutant of ReverseRows: data[::-1, ::-1], the columns are reversed too.
ReverseRows_and_columns(rows) ==
    [i \in 1..Len(rows) |->
        [j \in 1..Len(rows[1]) |-> rows[Len(rows) + 1 - i][Len(rows[1]) + 1 - j]]]

\* data[::-1]: the rows of the array in reverse order.
ReverseRows(rows) == [i \in 1..Len(rows) |-> rows[Len(rows) + 1 - i]]

\* go.Figure(data=go.Heatmap(z=..., colorscale="Viridis", colorbar=...))
Heatmap(z, colorbar_label) ==
    [z |-> z, colorscale |-> "Viridis", colorbar |-> colorbar_label]

\* Mutant of histogram: every cell is counted, the missing ones included.
histogram_counts_all(x, dtype, nbins) ==
    [x |-> x, nbins |-> nbins, total |-> Len(x)]

\* px.histogram(x=..., nbins=...): the values handed over, the bin count
\* asked for, and the total of the counts of the bars drawn (one per value
\* that is a number).
histogram(x, dtype, nbins) ==
    [x |-> x, nbins |-> nbins,
     total |-> Cardinality({i \in 1..Len(x) : IsFiniteCell(x[i], dtype)})]

\* bins: int = 50
DefaultBins == 50

\* plot_raster_and_hist(data, title_map, title_hist, colorbar_label, bins)
\* of app.py: (fig_map, fig_hist), and the array data as the call leaves it.
plot_raster_and_hist(data, colorbar_label, bins) ==
    LET flat_data == Flatten(data.rows) IN
    [fig_map |-> Heatmap(ReverseRows(data.rows), colorbar_label),
     fig_hist |-> histogram(flat_data, data.dtype, bins),
     data |-> data]

\* plot_raster_and_hist(data, title_map, title_hist, color_label) of
\* frontend.py: the same figures, with nbins=50.
frontend_plot_raster_and_hist(data, color_label) ==
    LET flat_data == Flatten(data.rows) IN
    [fig_map |-> Heatmap(ReverseRows(data.rows), color_label),
     fig_hist |-> histogram(flat_data, data.dtype, 50),
     data |-> data]

\* The label each raster tab gives to the colour bar and to the histogram.
AppColorbarLabel(dataset) ==
    CASE dataset = "landcover" -> "Land Cover"
      [] dataset = "gpp"       -> "GPP"
      [] dataset = "precip"    -> "Precipitación"
      [] dataset = "pop"       -> "Población (personas/km²)"

FrontendColorLabel(endpoint) ==
    CASE endpoint = "/rasters/landcover" -> "Land Cover"
      [] endpoint = "/rasters/gpp"       -> "GPP"
      [] endpoint = "/rasters/precip"    -> "mm/año"
      [] endpoint = "/rasters/pop"       -> "Pob/km2"

(***************************************************************************)
(* The standalone dashboard (app.py).                                      *)
(***************************************************************************)
RasterDatasets == {"landcover", "gpp", "precip", "pop"}
VectorDatasets == {"districts", "region", "roads", "streams"}

\* load_raster(filepath), for the file the path holds: (data, profile), or
\* (None, None) with an error logged when rasterio raises.
load_raster(file) ==
    IF file.kind # "raster"
    THEN [ok |-> FALSE, log |-> << Message("error", "Error al cargar ráster") >>]
    ELSE [ok |-> TRUE, data |-> file.band1, profile |-> Profile(file), log |-> << >>]

\* load_shapefile(filepath), for the file the path holds: the GeoDataFrame
\* with its datetime columns as text, or None with an error logged.
load_shapefile(file) ==
    IF ~read_file(file).ok
    THEN [ok |-> FALSE, log |-> << Message("error", "Error al cargar shapefile") >>]
    ELSE [ok |-> TRUE, gdf |-> DatetimeToString(read_file(file).val), log |-> << >>]

\* Mutant of AppRasterPath: the population file name lacks its suffix.
AppRasterPath_pop_suffix(dataset, year) ==
    CASE dataset = "landcover" ->
            os_path_join("Modis_Land_Cover_Data", ToString(year) \o "LCT.tif")
      [] dataset = "gpp" ->
            os_path_join("MODIS_Gross_Primary_Production_GPP", ToString(year) \o "_GP.tif")
      [] dataset = "precip" ->
            os_path_join("Climate_Precipitation_Data", ToString(year) \o "R.tif")
      [] dataset = "pop" ->
            os_path_join("Gridded_Population_Density_Data",
                         "mrt_pd_" \o ToString(year) \o ".tif")

\* The path main() builds in the tab of each raster dataset.
AppRasterPath(dataset, year) ==
    CASE dataset = "landcover" ->
            os_path_join("Modis_Land_Cover_Data", ToString(year) \o "LCT.tif")
      [] dataset = "gpp" ->
            os_path_join("MODIS_Gross_Primary_Production_GPP", ToString(year) \o "_GP.tif")
      [] dataset = "precip" ->
            os_path_join("Climate_Precipitation_Data", ToString(year) \o "R.tif")
      [] dataset = "pop" ->
            os_path_join("Gridded_Population_Density_Data",
                         "mrt_pd_" \o ToString(year) \o "_1km.tif")

\* The path main() builds for each vector layer of the first tab.
AppVectorPath(dataset) ==
    CASE dataset = "districts" -> os_path_join("Admin_layers", "Assaba_Districts_layer.shp")
      [] dataset = "region"    -> os_path_join("Admin_layers", "Assaba_Region_layer.shp")
      [] dataset = "roads"     -> os_path_join("Streamwater_Line_Road_Network", "Main_Road.shp")
      [] dataset = "streams"   -> os_path_join("Streamwater_Line_Road_Network", "Streamwater.shp")

\* The st.warning of a raster tab whose raster could not be loaded.
AppRasterWarning(dataset, year) ==
    CASE dataset = "landcover" -> "No se pudo cargar el ráster de Cobertura de Tierra."
      [] dataset = "gpp" ->
            "No se pudo cargar el ráster de GPP para " \o ToString(year) \o "."
      [] dataset = "precip" ->
            "No se pudo cargar el ráster de precipitación para " \o ToString(year) \o "."
      [] dataset = "pop" ->
            "No se pudo cargar el ráster de población para " \o ToString(year) \o "."

\* One raster tab of main(): the path, what load_raster gave, the figures
\* drawn when it gave an array, what the tab displayed; raised says whether
\* an exception left the tab.
AppRasterTab(dataset, year, file) ==
    LET loaded == load_raster(file) IN
    [dataset |-> dataset, year |-> year, path |-> AppRasterPath(dataset, year),
     loaded |-> loaded,
     figs |-> IF loaded.ok
              THEN << plot_raster_and_hist(loaded.data, AppColorbarLabel(dataset),
                                           DefaultBins) >>
              ELSE << >>,
     ui |-> IF loaded.ok THEN << >>
            ELSE << Message("warning", AppRasterWarning(dataset, year)) >>,
     raised |-> FALSE]

\* One vector layer of the first tab of main(): added to the map when the
\* load gave a layer, skipped otherwise.
AppVectorLayer(dataset, file) ==
    LET loaded == load_shapefile(file) IN
    [dataset |-> dataset, year |-> 0, path |-> AppVectorPath(dataset),
     loaded |-> loaded, ui |-> << >>, raised |-> FALSE]

(***************************************************************************)
(* The requests of the client (frontend.py): what requests.get is given.   *)
(***************************************************************************)
\* The params of a request without any.
NoParams == << >>

NoTimeout == [set |-> FALSE]
Timeout(seconds) == [set |-> TRUE, seconds |-> seconds]

\* get_geojson: requests.get(url)
get_geojson_request(endpoint) ==
    [endpoint |-> endpoint, params |-> NoParams, timeout |-> NoTimeout]

\* get_raster: requests.get(url, params=params, timeout=20)
get_raster_request(endpoint, params) ==
    [endpoint |-> endpoint, params |-> params, timeout |-> Timeout(20)]

(***************************************************************************)
(* The tabs of the client dashboard (frontend.py) and one evaluation of a  *)
(* dashboard page, tab after tab.                                          *)
(***************************************************************************)
\* Mutant of HasFeatures: `if data_geo and data_geo.get("features")`, which
\* an empty list of features fails.
HasFeatures_truthy(data_geo) ==
    /\ DOMAIN data_geo # {}
    /\ "features" \in DOMAIN data_geo
    /\ Len(data_geo.features) > 0

\* `if data_geo and "features" in data_geo`: the dict is not empty and has
\* the key.
HasFeatures(data_geo) ==
    DOMAIN data_geo # {} /\ "features" \in DOMAIN data_geo

\* Mutant of FrontendVectorLayer: get_geojson lets the exception of
\* requests.get through.
FrontendVectorLayer_uncaught(endpoint, resp) ==
    LET data_geo == get_geojson(endpoint, resp) IN
    [name |-> endpoint, loaded |-> HasFeatures(data_geo.data),
     rendered |-> HasFeatures(data_geo.data), data |-> data_geo.data,
     ui |-> data_geo.ui, raised |-> resp.kind = "exception"]

\* One vector layer of tabs[0]: the layer is added to the map when
\* get_geojson gave a dict with features; nothing else is displayed.
FrontendVectorLayer(endpoint, resp) ==
    LET data_geo == get_geojson(endpoint, resp) IN
    [name |-> endpoint, loaded |-> HasFeatures(data_geo.data),
     rendered |-> HasFeatures(data_geo.data), data |-> data_geo.data,
     ui |-> data_geo.ui, raised |-> FALSE]

\* One raster tab (tabs[1] .. tabs[4]): the heatmap, the histogram and the
\* metadata are displayed when get_raster gave an array.
FrontendRasterTab(endpoint, resp) ==
    LET got == get_raster(endpoint, resp) IN
    [name |-> endpoint, loaded |-> got.ok, rendered |-> got.ok,
     data |-> << >>, ui |-> got.ui, raised |-> FALSE]

\* tabs[5]: the attribute table of /admin/districts, a warning when the
\* layer has no feature, another one when no layer was obtained.
FrontendDistrictInfo(resp) ==
    LET geo_data == get_geojson("/admin/districts", resp) IN
    IF HasFeatures(geo_data.data) THEN
        IF Len(geo_data.data.features) > 0 THEN
            [name |-> "/admin/districts", loaded |-> TRUE, rendered |-> TRUE,
             data |-> geo_data.data, ui |-> geo_data.ui, raised |-> FALSE]
        ELSE
            [name |-> "/admin/districts", loaded |-> TRUE, rendered |-> FALSE,
             data |-> geo_data.data,
             ui |-> geo_data.ui \o
                 << Message("warning",
                            "No se encontró ninguna feature en /admin/districts.") >>,
             raised |-> FALSE]
    ELSE
        [name |-> "/admin/districts", loaded |-> FALSE, rendered |-> FALSE,
         data |-> geo_data.data,
         ui |-> geo_data.ui \o
             << Message("warning", "No se pudo obtener la información de distritos.") >>,
         raised |-> FALSE]

\* The tabs of each dashboard, in the order the script evaluates them:
\* tab 0 holds the vector layers whose checkbox is ticked.
PageItem(tab, name) == [tab |-> tab, name |-> name]

FrontendPageItems(shown) ==
    SelectSeq(<< PageItem(0, "/admin/districts"), PageItem(0, "/admin/region"),
                 PageItem(0, "/roads"), PageItem(0, "/water"),
                 PageItem(1, "/rasters/landcover"), PageItem(2, "/rasters/gpp"),
                 PageItem(3, "/rasters/precip"), PageItem(4, "/rasters/pop"),
                 PageItem(5, "/admin/districts") >>,
              LAMBDA it : it.tab # 0 \/ it.name \in shown)

AppPageItems(shown) ==
    SelectSeq(<< PageItem(0, "districts"), PageItem(0, "region"),
                 PageItem(0, "roads"), PageItem(0, "streams"),
                 PageItem(1, "landcover"), PageItem(2, "gpp"),
                 PageItem(3, "precip"), PageItem(4, "pop") >>,
              LAMBDA it : it.tab # 0 \/ it.name \in shown)

\* What the path of a page's item holds, for the pages the model evaluates:
\* nothing, an unreadable file, a layer without records, a layer with one
\* record, a one-row raster.
PageVectorFiles ==
    {AbsentFile, CorruptFile,
     VectorFile("EPSG:4326", FALSE, << >>),
     VectorFile("EPSG:4326", FALSE,
                << [geometry |-> Geometry("G", "EPSG:4326"), fecha |-> NaT] >>)}

PageRasterFiles ==
    {AbsentFile, CorruptFile,
     RasterFile([dtype |-> "uint8", shape |-> << 1, 2 >>, rows |-> << << 1, 255 >> >>])}

PageFiles(name) ==
    IF name \in RasterEndpoints \cup RasterDatasets
    THEN PageRasterFiles ELSE PageVectorFiles

\* One item of the client's page.
FrontendItem(it, resp) ==
    IF it.tab = 0 THEN FrontendVectorLayer(it.name, resp)
    ELSE IF it.tab = 5 THEN FrontendDistrictInfo(resp)
    ELSE FrontendRasterTab(it.name, resp)

\* One item of the standalone dashboard's page.
AppItem(it, year, file) ==
    IF it.tab = 0
    THEN LET layer == AppVectorLayer(it.name, file) IN
         [name |-> it.name, loaded |-> layer.loaded.ok, rendered |-> layer.loaded.ok,
          data |-> << >>, ui |-> layer.ui, raised |-> layer.raised]
    ELSE LET tab == AppRasterTab(it.name, year, file) IN
         [name |-> it.name, loaded |-> tab.loaded.ok, rendered |-> tab.loaded.ok,
          data |-> << >>, ui |-> tab.ui, raised |-> tab.raised]

(***************************************************************************)
(* The ROI time-series tool (main.py).  The remote platform is reached     *)
(* through the ee client: a query is built locally and getInfo() sends it. *)
(***************************************************************************)
\* The coordinates of a geometry, as the text of their JSON.
DefaultRectangle == "[-16.0, 16.0, -14.0, 18.0]"

\* The coordinates of the features a user can draw on the map: two
\* polygons and a marker.
DrawnCoordinates ==
    {"[[[-12, 16], [-11, 16], [-11, 17], [-12, 16]]]",
     "[[[-13, 17], [-12, 17], [-12, 18], [-13, 17]]]",
     "[-12.5, 16.5]"}

\* Coordinates ee.Geometry.Polygon cannot read: a flat list of an odd
\* number of values ("Invalid number of coordinates: 3").
UnreadableCoordinates == "[-12.5, 16.5, 0.0]"

\* A drawn feature, as Map.get_drawn_features() lists it.
DrawnFeature(coords) ==
    [type |-> "Feature", geometry |-> [coordinates |-> coords]]

\* Map.get_drawn_features(): no feature, one, or two.
DrawnFeatureLists ==
    {<< >>}
    \cup {<< DrawnFeature(c) >> : c \in DrawnCoordinates}
    \cup {<< DrawnFeature(c), DrawnFeature(d) >> :
             c \in DrawnCoordinates, d \in DrawnCoordinates}

\* ee.Geometry.Polygon(coords): the geometry, or the exception the client
\* library raises for coordinates it cannot read.
ee_Geometry_Polygon(coords) ==
    IF coords \in DrawnCoordinates
    THEN Ok([type |-> "Polygon", coordinates |-> coords])
    ELSE Raise("EEException")

\* ee.Geometry.Rectangle(coords)
ee_Geometry_Rectangle(coords) == [type |-> "Rectangle", coordinates |-> coords]

\* st.session_state['roi_coords'] when no ROI was saved.
NoRoi == None

\* Mutant of get_drawn_roi: the failure to build the polygon is neither
\* displayed nor logged.
get_drawn_roi_silent(roi_coords) ==
    IF roi_coords # NoRoi /\ ee_Geometry_Polygon(roi_coords).ok
    THEN [none |-> FALSE, roi |-> ee_Geometry_Polygon(roi_coords).val,
          ui |-> << >>, log |-> << >>]
    ELSE [none |-> TRUE, ui |-> << >>, log |-> << >>]

\* get_drawn_roi(): the polygon of the saved coordinates; none when no ROI
\* is saved, or (with an error displayed and logged) when the polygon
\* cannot be built.
get_drawn_roi(roi_coords) ==
    IF roi_coords # NoRoi THEN
        IF ee_Geometry_Polygon(roi_coords).ok
        THEN [none |-> FALSE, roi |-> ee_Geometry_Polygon(roi_coords).val,
              ui |-> << >>, log |-> << >>]
        ELSE [none |-> TRUE,
              ui |-> << Message("error", "Error al crear la ROI con las coordenadas.") >>,
              log |-> << Message("exception", "Error al crear ROI") >>]
    ELSE [none |-> TRUE, ui |-> << >>, log |-> << >>]

\* Lines 198-202 and 323-326: the ROI of the session, or the default
\* rectangle with a warning.
RoiOrDefault(roi_coords) ==
    LET got == get_drawn_roi(roi_coords) IN
    IF got.none
    THEN [roi |-> ee_Geometry_Rectangle(DefaultRectangle),
          ui |-> got.ui \o
              << Message("warning",
                         "No se ha definido una ROI. Se usará una región por defecto.") >>,
          log |-> got.log]
    ELSE [roi |-> got.roi, ui |-> got.ui, log |-> got.log]

\* The variables of the analysis screen and of the comparison screen.
Variables == {"GPP (MODIS)", "NDVI (MODIS)", "Precipitación (CHIRPS)"}
CompareVariables == {"GPP (MODIS)", "NDVI (MODIS)"}

\* The image collection, the band and the scale of each variable.
CollectionId(variable) ==
    CASE variable = "GPP (MODIS)"            -> "MODIS/006/MOD17A2H"
      [] variable = "NDVI (MODIS)"           -> "MODIS/006/MOD13A2"
      [] variable = "Precipitación (CHIRPS)" -> "UCSB-CHG/CHIRPS/DAILY"

BandName(variable) ==
    CASE variable = "GPP (MODIS)"            -> "Gpp"
      [] variable = "NDVI (MODIS)"           -> "NDVI"
      [] variable = "Precipitación (CHIRPS)" -> "precipitation"

Scale(variable) ==
    CASE variable = "GPP (MODIS)"            -> 500
      [] variable = "NDVI (MODIS)"           -> 500
      [] variable = "Precipitación (CHIRPS)" -> 5000

\* A date of st.date_input, and date.strftime('%Y-%m-%d').
Date(y, m, d) == [y |-> y, m |-> m, d |-> d]
DateStr(date) == ToString(date.y) \o "-" \o Pad2(date.m) \o "-" \o Pad2(date.d)
DateAfter(a, b) ==
    \/ a.y > b.y
    \/ a.y = b.y /\ a.m > b.m
    \/ a.y = b.y /\ a.m = b.m /\ a.d > b.d

\* The query a screen builds for one variable and one period:
\* ee.ImageCollection(id).filterDate(start, end).filterBounds(roi)
\*   .map(compute_mean).filter(ee.Filter.notNull(['value']))
Query(variable, start_str, end_str, roi) ==
    [collection |-> CollectionId(variable), start |-> start_str, end |-> end_str,
     bounds |-> roi, geometry |-> roi, band |-> BandName(variable),
     scale |-> Scale(variable), notNull |-> << "value" >>]

\* A reduction that found no valid pixel gives null.
Null == [null |-> TRUE]
Value(v) == [null |-> FALSE, v |-> v]

\* The images that a filtered collection can hold: system:time_start in
\* milliseconds, and the mean of the queried band over the geometry.
MsPerDay == 86400000
TimeStarts == {0, MsPerDay}
Means == {Null, Value(5), Value(7)}
Images == {[time_start |-> t, mean |-> m] : t \in TimeStarts, m \in Means}

\* Every list of at most n images.
ImageLists(n) == UNION {[1..k -> Images] : k \in 0..n}

\* compute_mean_gpp / compute_mean_ndvi / compute_mean_precip /
\* compute_mean: ee.Feature(None, {'date': date, 'value': mean}).
compute_mean(image) ==
    [type |-> "Feature", geometry |-> None,
     properties |-> [date |-> image.time_start, value |-> image.mean]]

\* Mutant of notNull: the filter lets every feature through.
notNull_all(features) == features

\* .filter(ee.Filter.notNull(['value'])): the features whose value is set.
notNull(features) ==
    SelectSeq(features, LAMBDA f : ~f.properties.value.null)

\* collection.map(f)
MapImages(images) == [i \in 1..Len(images) |-> compute_mean(images[i])]

\* features.getInfo() on the platform, for the images the filtered
\* collection holds: the dict of the feature collection.
getInfo(images) ==
    [type |-> "FeatureCollection", features |-> notNull(MapImages(images))]

\* features_info.get('features', [])
FeaturesList(features_info) ==
    IF "features" \in DOMAIN features_info THEN features_info.features ELSE << >>

\* pd.to_datetime(timestamp, unit='ms'): the day since the epoch and the
\* milliseconds into it.
to_datetime(timestamp) ==
    [day |-> timestamp \div MsPerDay, ms |-> timestamp % MsPerDay]

\* Timestamp order.
DatetimeLE(a, b) == a.day < b.day \/ (a.day = b.day /\ a.ms <= b.ms)

\* The rows of pd.DataFrame({'Fecha': dates, 'Valor': values}) built by the
\* loop over features_list.
Frame(features_list) ==
    [i \in 1..Len(features_list) |->
        [Fecha |-> to_datetime(features_list[i].properties.date),
         Valor |-> features_list[i].properties.value]]

\* The permutations of 1..n.
Permutations1(n) == {p \in [1..n -> 1..n] : \A i, j \in 1..n : i # j => p[i] # p[j]}

IsSortedByFecha(rows) ==
    \A i \in 1..(Len(rows) - 1) : DatetimeLE(rows[i].Fecha, rows[i + 1].Fecha)

\* Mutant of sort_values: the frame is left in the order of arrival.
sort_values_unsorted(rows) == {rows}

\* df.sort_values('Fecha'): the rows in ascending order of Fecha.  The
\* default sort is not stable, so rows of equal Fecha can come in any
\* order: the set of the orders it can give.
sort_values(rows) ==
    {[i \in 1..Len(rows) |-> rows[p[i]]] : p \in
        {q \in Permutations1(Len(rows)) :
            IsSortedByFecha([i \in 1..Len(rows) |-> rows[q[i]]])}}

\* A frame that was not built (df1, df2 = None, None), and one that was.
NoFrame == [none |-> TRUE]
SomeFrame(rows) == [none |-> FALSE, rows |-> rows]

\* Mutant of MapScreen: 'Guardar ROI' with nothing drawn forgets the ROI.
MapScreen_empty_save_clears(roi_coords, map_raises, pressed, drawn, html_raises) ==
    IF map_raises \/ (pressed /\ ~drawn.ok) THEN
        [screen |-> "Mapa Interactivo", roi_coords |-> roi_coords, saved |-> FALSE,
         ui |-> << Message("error", "Error al mostrar el mapa interactivo.") >>,
         log |-> << Message("exception", "Error en el mapa interactivo") >>,
         failed |-> TRUE, raised |-> FALSE]
    ELSE
        [screen |-> "Mapa Interactivo",
         roi_coords |-> IF ~pressed THEN roi_coords
                        ELSE IF Len(drawn.val) > 0
                        THEN drawn.val[1].geometry.coordinates
                        ELSE None,
         saved |-> pressed /\ Len(drawn.val) > 0,
         ui |-> IF pressed /\ Len(drawn.val) = 0
                THEN << Message("warning",
                       "No se detectó ninguna ROI. Dibuja un polígono en el mapa.") >>
                ELSE << >>,
         log |-> << >>, failed |-> FALSE, raised |-> FALSE]

\* Mutant of MapScreen: the last drawn feature is saved, not the first.
MapScreen_last_feature(roi_coords, map_raises, pressed, drawn, html_raises) ==
    IF map_raises \/ (pressed /\ ~drawn.ok) THEN
        [screen |-> "Mapa Interactivo", roi_coords |-> roi_coords, saved |-> FALSE,
         ui |-> << Message("error", "Error al mostrar el mapa interactivo.") >>,
         log |-> << Message("exception", "Error en el mapa interactivo") >>,
         failed |-> TRUE, raised |-> FALSE]
    ELSE
        [screen |-> "Mapa Interactivo",
         roi_coords |-> IF pressed /\ Len(drawn.val) > 0
                        THEN drawn.val[Len(drawn.val)].geometry.coordinates
                        ELSE roi_coords,
         saved |-> pressed /\ Len(drawn.val) > 0,
         ui |-> << >>, log |-> << >>, failed |-> FALSE, raised |-> FALSE]

\* The map screen (lines 124-165).  map_raises: building or showing the map
\* raises; pressed: 'Guardar ROI' was pressed; drawn: the outcome of
\* Map.get_drawn_features(); html_raises: Map.to_html() raises.  Gives the
\* value of st.session_state['roi_coords'] after the screen and what the
\* screen displayed and logged.
MapScreen(roi_coords, map_raises, pressed, drawn, html_raises) ==
    LET save ==
            IF ~pressed THEN [roi_coords |-> roi_coords, saved |-> FALSE,
                              ui |-> << >>, log |-> << >>]
            ELSE IF Len(drawn.val) > 0
            THEN [roi_coords |-> drawn.val[1].geometry.coordinates, saved |-> TRUE,
                  ui |-> << Message("success", "ROI guardada correctamente.") >>,
                  log |-> << Message("info", "ROI guardada") >>]
            ELSE [roi_coords |-> roi_coords, saved |-> FALSE,
                  ui |-> << Message("warning",
                       "No se detectó ninguna ROI. Dibuja un polígono en el mapa.") >>,
                  log |-> << >>]
        html ==
            IF html_raises
            THEN [ui |-> << Message("error",
                              "No se pudo generar el HTML del mapa para descarga.") >>,
                  log |-> << Message("exception", "Error al generar HTML del mapa") >>]
            ELSE [ui |-> << Message("download_button", "Descargar Mapa (HTML)") >>,
                  log |-> << Message("info",
                               "Botón para descargar el mapa HTML agregado.") >>]
    IN
    IF map_raises \/ (pressed /\ ~drawn.ok) THEN
        [screen |-> "Mapa Interactivo", roi_coords |-> roi_coords, saved |-> FALSE,
         ui |-> << Message("error", "Error al mostrar el mapa interactivo.") >>,
         log |-> << Message("exception", "Error en el mapa interactivo") >>,
         failed |-> TRUE, raised |-> FALSE]
    ELSE
        [screen |-> "Mapa Interactivo", roi_coords |-> save.roi_coords,
         saved |-> save.saved, ui |-> save.ui \o html.ui,
         log |-> save.log \o html.log, failed |-> FALSE, raised |-> FALSE]

\* A series that reached a table and a chart: the rows displayed and the
\* query (by its position) whose answer they come from.
Series(label, q, rows) == [label |-> label, query |-> q, rows |-> rows]

\* ax.plot(df['Fecha'], df[...], marker=..., linestyle=..., label=...): one
\* line of a chart.
Line(rows, marker, linestyle, label) ==
    [rows |-> rows, marker |-> marker, linestyle |-> linestyle, label |-> label]

\* One figure as st.pyplot shows it: its lines, ax.set_ylabel, ax.set_title.
Figure(lines, ylabel, title) == [lines |-> lines, ylabel |-> ylabel, title |-> title]

\* Mutant of AnalysisStart: a start after the end is put in order before
\* the query is built.
AnalysisStart_orders_dates(roi_coords, start_date, end_date, variable) ==
    LET got == RoiOrDefault(roi_coords)
        first == IF DateAfter(start_date, end_date) THEN end_date ELSE start_date
        last == IF DateAfter(start_date, end_date) THEN start_date ELSE end_date
    IN
    [screen |-> "Análisis de Datos", variables |-> << variable >>,
     roi |-> got.roi,
     queries |-> << Query(variable, DateStr(first), DateStr(last), got.roi) >>,
     answers |-> << >>, frames |-> << >>, series |-> << >>, charts |-> << >>,
     csv |-> << >>,
     ui |-> (IF DateAfter(start_date, end_date)
             THEN << Message("error",
                       "La fecha de inicio debe ser anterior a la fecha de fin.") >>
             ELSE << >>)
            \o << Message("info", "Procesando datos...") >> \o got.ui,
     log |-> got.log, sent |-> 0, failed |-> FALSE, raised |-> FALSE]

\* The analysis screen up to features.getInfo() (lines 186-245): the date
\* check, the ROI or the default rectangle, the query of the variable.
AnalysisStart(roi_coords, start_date, end_date, variable) ==
    LET got == RoiOrDefault(roi_coords) IN
    [screen |-> "Análisis de Datos", variables |-> << variable >>,
     roi |-> got.roi,
     queries |-> << Query(variable, DateStr(start_date), DateStr(end_date), got.roi) >>,
     answers |-> << >>, frames |-> << >>, series |-> << >>, charts |-> << >>,
     csv |-> << >>,
     ui |-> (IF DateAfter(start_date, end_date)
             THEN << Message("error",
                       "La fecha de inicio debe ser anterior a la fecha de fin.") >>
             ELSE << >>)
            \o << Message("info", "Procesando datos...") >> \o got.ui,
     log |-> got.log, sent |-> 0, failed |-> FALSE, raised |-> FALSE]

\* The analysis screen from features.getInfo() on (lines 247-285), for the
\* outcome of the call: the exception it raised, or the images the
\* filtered collection holds.  The set of the results the screen can give
\* (one for each order sort_values can give).
AnalysisAnswer(run, answer) ==
    IF ~answer.ok THEN
        {[run EXCEPT !.sent = @ + 1, !.failed = TRUE,
                 !.log = @ \o << Message("exception", "Error en el análisis de datos") >>,
                 !.ui = @ \o << Message("error", "Error en el análisis. Revisa los logs.") >>]}
    ELSE LET features_list == FeaturesList(getInfo(answer.val)) IN
    IF Len(features_list) = 0 THEN
        {[run EXCEPT !.sent = @ + 1, !.answers = Append(@, features_list),
                 !.ui = @ \o << Message("warning",
    "No se encontraron datos para el rango de fechas y la ROI seleccionada.") >>]}
    ELSE
        {[run EXCEPT !.sent = @ + 1, !.answers = Append(@, features_list),
                 !.frames = << SomeFrame(df) >>,
                 !.series = << Series(run.variables[1], 1, df) >>,
                 !.charts = << Figure(<< Line(df, "o", "-", "") >>, run.variables[1],
                                      "Serie de Tiempo: " \o run.variables[1]) >>,
                 !.csv = df,
                 !.ui = @ \o << Message("success", "Análisis completado.") >>] :
            df \in sort_values(Frame(features_list))}

\* The periods of the comparison screen (the defaults of its date inputs).
Period1 == [start |-> Date(2010, 1, 1), end |-> Date(2015, 12, 31)]
Period2 == [start |-> Date(2016, 1, 1), end |-> Date(2020, 12, 31)]

\* The results of the comparison screen, displayed variable after variable
\* (lines 393-416): both frames of a variable, or a warning when one is
\* missing.
RECURSIVE CompareSeries(_, _, _)
CompareSeries(variables, frames, k) ==
    IF k > Len(variables) THEN << >>
    ELSE (IF ~frames[2 * k - 1].none /\ ~frames[2 * k].none
          THEN << Series(variables[k], 2 * k - 1, frames[2 * k - 1].rows),
                  Series(variables[k], 2 * k, frames[2 * k].rows) >>
          ELSE << >>)
         \o CompareSeries(variables, frames, k + 1)

\* Mutant of CompareCharts: both lines of a chart plot the frame of
\* period 1.
RECURSIVE CompareCharts_period1_twice(_, _, _)
CompareCharts_period1_twice(variables, frames, k) ==
    IF k > Len(variables) THEN << >>
    ELSE (IF ~frames[2 * k - 1].none /\ ~frames[2 * k].none
          THEN << Figure(<< Line(frames[2 * k - 1].rows, "o", "-", "Período 1"),
                            Line(frames[2 * k - 1].rows, "s", "--", "Período 2") >>,
                         variables[k],
                         "Comparación de " \o variables[k] \o " entre Períodos") >>
          ELSE << >>)
         \o CompareCharts_period1_twice(variables, frames, k + 1)

\* The chart of each variable whose two frames were built (lines 401-412):
\* the frame of period 1 with round markers, that of period 2 with square
\* ones.
RECURSIVE CompareCharts(_, _, _)
CompareCharts(variables, frames, k) ==
    IF k > Len(variables) THEN << >>
    ELSE (IF ~frames[2 * k - 1].none /\ ~frames[2 * k].none
          THEN << Figure(<< Line(frames[2 * k - 1].rows, "o", "-", "Período 1"),
                            Line(frames[2 * k].rows, "s", "--", "Período 2") >>,
                         variables[k],
                         "Comparación de " \o variables[k] \o " entre Períodos") >>
          ELSE << >>)
         \o CompareCharts(variables, frames, k + 1)

RECURSIVE CompareMessages(_, _, _)
CompareMessages(variables, frames, k) ==
    IF k > Len(variables)
    THEN << Message("success", "Comparación completada.") >>
    ELSE (IF ~frames[2 * k - 1].none /\ ~frames[2 * k].none
          THEN << >>
          ELSE << Message("warning",
                          "No se encontraron datos para " \o variables[k] \o ".") >>)
         \o CompareMessages(variables, frames, k + 1)

CompareDisplay(run) ==
    [run EXCEPT !.series = CompareSeries(run.variables, run.frames, 1),
                !.charts = CompareCharts(run.variables, run.frames, 1),
                !.ui = @ \o CompareMessages(run.variables, run.frames, 1)]

\* The comparison screen up to its first getInfo() (lines 304-326 and the
\* queries of lines 329-359): the ROI or the default rectangle, two queries
\* for each selected variable.  With no variable selected the screen has
\* nothing to ask and displays its (empty) results at once.
CompareStart(roi_coords, variables) ==
    LET got == RoiOrDefault(roi_coords)
        run == [screen |-> "Comparativa de Períodos", variables |-> variables,
                roi |-> got.roi,
                queries |-> [q \in 1..(2 * Len(variables)) |->
                    LET var == variables[(q + 1) \div 2]
                        period == IF q % 2 = 1 THEN Period1 ELSE Period2
                    IN Query(var, DateStr(period.start), DateStr(period.end), got.roi)],
                answers |-> << >>, frames |-> << >>, series |-> << >>,
                charts |-> << >>, csv |-> << >>,
                ui |-> << Message("info", "Procesando comparación...") >> \o got.ui,
                log |-> got.log, sent |-> 0, failed |-> FALSE, raised |-> FALSE]
    IN IF Len(variables) = 0 THEN CompareDisplay(run) ELSE run

\* The comparison screen at one getInfo() (lines 362-390), for the outcome
\* of the call.  No handler surrounds the body of this screen: the
\* exception of getInfo leaves the script.  After the last answer the
\* results are displayed.
CompareAnswer(run, answer) ==
    IF ~answer.ok THEN
        {[run EXCEPT !.sent = @ + 1, !.failed = TRUE, !.raised = TRUE]}
    ELSE LET features_list == FeaturesList(getInfo(answer.val))
             frames == IF Len(features_list) = 0 THEN {NoFrame}
                       ELSE {SomeFrame(df) : df \in sort_values(Frame(features_list))}
         IN {LET next == [run EXCEPT !.sent = @ + 1,
                                     !.answers = Append(@, features_list),
                                     !.frames = Append(@, f)]
             IN IF Len(next.answers) = Len(next.queries)
                THEN CompareDisplay(next) ELSE next : f \in frames}

\* The run of a screen has nothing left to ask the platform.
RunFinished(run) ==
    run.failed \/ Len(run.answers) = Len(run.queries)

(***************************************************************************)
(* Two requests handled at once by the Data Service (backend.py).  FastAPI *)
(* runs each `def` endpoint in a worker thread: the handlers interleave    *)
(* between the existence check, the loader's first log line and the read.  *)
(* What the threads share is the file system and the process-wide logger.  *)
(***************************************************************************)
\* The requests drawn: each endpoint, without a year or with year=2015.
ConcRequests ==
    {[endpoint |-> e, params |-> p] :
        e \in Endpoints, p \in {NoParams, [year |-> 2015]}}

\* The path a request resolves (os.path.join of the endpoint).
HandlerPath(request) == Route(request.endpoint, request.params, AbsentFile).path

\* A handler that has not run yet.
NewHandler(request) ==
    [endpoint |-> request.endpoint, params |-> request.params,
     path |-> HandlerPath(request), stage |-> "new", exists |-> FALSE,
     out |-> [pending |-> TRUE]]

\* `if not os.path.exists(path): return {"error": ...}`
HandlerCheck(h, files) ==
    IF os_path_exists(files[h.path])
    THEN [h EXCEPT !.stage = "checked", !.exists = TRUE]
    ELSE [h EXCEPT !.stage = "done", !.exists = FALSE,
                   !.out = Ok(ErrorBody(h.path))]

\* Mutant of HandlerFile: the loader opens the path that was logged last,
\* as if the path were kept in a variable of the module.
HandlerFile_last_logged(h, files, log) == files[log[Len(log)]]

\* The file a handler's loader opens: the one at the path it was given.
HandlerFile(h, files, log) == files[h.path]

\* The Access component an endpoint calls once its path passed the check.
Loader(endpoint, file) ==
    IF endpoint \in VectorEndpoints
    THEN load_shapefile_as_geojson(file)
    ELSE load_raster_as_base64(file)

\* The loader opens the file its path holds by now and the handler returns
\* what the loader built; the exception of the loader leaves the handler.
HandlerRead(h, files, log) ==
    [h EXCEPT !.stage = "done",
              !.out = Loader(h.endpoint, HandlerFile(h, files, log))]

(***************************************************************************)
(* The state machine.  The repository holds four programs that share no    *)
(* state: the Data Service with its client and the standalone dashboard    *)
(* (one request or one tab at a time: Spec), a whole page of a dashboard   *)
(* (SpecPage), the ROI tool (SpecRoi) and the Data Service under two       *)
(* requests at once (SpecConc).                                            *)
(***************************************************************************)
VARIABLES
    pc,      \* "idle", "inflight", "responded", "hung", "page", "asking",
             \* "serving", "done"
    req,     \* the request in flight: [endpoint, params, timeout]
    disk,    \* [path, file]: the file at the path the interaction resolved
    srv,     \* what the endpoint handler did: [path, exists, access, out]
    resp,    \* the outcome of requests.get on the client
    cli,     \* what get_raster / get_geojson returned and displayed
    app,     \* what a tab of the standalone dashboard did
    cors,    \* the decision of the CORS middleware on a request's Origin
    session, \* st.session_state of the ROI tool: [roi_coords]
    roi,     \* the screen of the ROI tool being evaluated
    page,    \* the page of a dashboard being evaluated
    conc     \* the Data Service handling two requests at once

vars == << pc, req, disk, srv, resp, cli, app, cors, session, roi, page, conc >>

\* The value of a variable that the interaction has not set.
Nil == [nil |-> TRUE]

\* The years the model draws: the default of the endpoints and another
\* year every selectbox offers.
Years == {2010, 2015}

\* The origins the model draws for a cross-origin request.
Origins == {"", "http://localhost:8501", "https://example.org"}

\* The params of a request: none, or {"year": y}.
RequestParams(endpoint) ==
    IF endpoint \in RasterEndpoints
    THEN {NoParams} \cup {[year |-> y] : y \in Years}
    ELSE {NoParams}

\* What the path an endpoint resolves can hold.
PathStates(endpoint) ==
    IF endpoint \in RasterEndpoints THEN RasterPathStates ELSE VectorPathStates

Init ==
    /\ pc = "idle"
    /\ req = Nil /\ disk = Nil /\ srv = Nil /\ resp = Nil
    /\ cli = Nil /\ app = Nil /\ cors = Nil
    /\ session = [roi_coords |-> NoRoi]
    /\ roi = Nil /\ page = Nil /\ conc = Nil

\* The client issues GET endpoint?params: get_geojson for the vector
\* endpoints, get_raster for the raster endpoints.
Request ==
    /\ pc = "idle"
    /\ \E endpoint \in Endpoints : \E params \in RequestParams(endpoint) :
          req' = IF endpoint \in RasterEndpoints
                 THEN get_raster_request(endpoint, params)
                 ELSE get_geojson_request(endpoint)
    /\ pc' = "inflight"
    /\ UNCHANGED << disk, srv, resp, cli, app, cors, session, roi, page, conc >>

\* The Data Service handles the request against the file at the path.
Serve ==
    /\ pc = "inflight"
    /\ \E file \in PathStates(req.endpoint) :
         LET h == Route(req.endpoint, req.params, file) IN
         /\ srv' = h
         /\ disk' = [path |-> h.path, file |-> file]
         /\ resp' = FastAPIResponse(h.out)
    /\ pc' = "responded"
    /\ UNCHANGED << req, cli, app, cors, session, roi, page, conc >>

\* requests.get raises: the service cannot be reached.
NetworkFailure ==
    /\ pc = "inflight"
    /\ resp' = NetworkException("ConnectionError")
    /\ pc' = "responded"
    /\ UNCHANGED << req, disk, srv, cli, app, cors, session, roi, page, conc >>

\* The service accepts the connection and never answers: requests.get
\* raises Timeout when it was given a timeout, and never returns when it
\* was not (the screen stays blocked).
ServiceSilent ==
    /\ pc = "inflight"
    /\ IF req.timeout.set
       THEN resp' = NetworkException("Timeout") /\ pc' = "responded"
       ELSE resp' = resp /\ pc' = "hung"
    /\ UNCHANGED << req, disk, srv, cli, app, cors, session, roi, page, conc >>

\* The host at API_URL answers with what this Data Service does not build.
ForeignResponse ==
    /\ pc = "inflight"
    /\ req.endpoint \in RasterEndpoints
    /\ \E r \in ForeignResponses : resp' = r
    /\ pc' = "responded"
    /\ UNCHANGED << req, disk, srv, cli, app, cors, session, roi, page, conc >>

\* get_raster gets the outcome of its requests.get.
ClientGetRaster ==
    /\ pc = "responded"
    /\ req.endpoint \in RasterEndpoints
    /\ cli' = get_raster(req.endpoint, resp)
    /\ pc' = "done"
    /\ UNCHANGED << req, disk, srv, resp, app, cors, session, roi, page, conc >>

\* get_geojson gets the outcome of its requests.get.
ClientGetGeojson ==
    /\ pc = "responded"
    /\ req.endpoint \in VectorEndpoints
    /\ cli' = get_geojson(req.endpoint, resp)
    /\ pc' = "done"
    /\ UNCHANGED << req, disk, srv, resp, app, cors, session, roi, page, conc >>

\* The raster tab of the client goes on after get_raster gave an array
\* (`if data_lc is not None`): the figures are drawn.
ClientPlot ==
    /\ pc = "done"
    /\ cli # Nil
    /\ req.endpoint \in RasterEndpoints
    /\ cli.ok
    /\ "figs" \notin DOMAIN cli
    /\ cli' = cli @@ ("figs" :> frontend_plot_raster_and_hist(
                                    cli.arr, FrontendColorLabel(req.endpoint)))
    /\ UNCHANGED << pc, req, disk, srv, resp, app, cors, session, roi, page, conc >>

\* A raster tab of the standalone dashboard is evaluated.
AppRaster ==
    /\ pc = "idle"
    /\ \E dataset \in RasterDatasets, year \in Years, file \in RasterPathStates :
         /\ app' = AppRasterTab(dataset, year, file)
         /\ disk' = [path |-> AppRasterPath(dataset, year), file |-> file]
    /\ pc' = "done"
    /\ UNCHANGED << req, srv, resp, cli, cors, session, roi, page, conc >>

\* A vector layer of the standalone dashboard's first tab is evaluated.
AppVector ==
    /\ pc = "idle"
    /\ \E dataset \in VectorDatasets, file \in VectorPathStates :
         /\ app' = AppVectorLayer(dataset, file)
         /\ disk' = [path |-> AppVectorPath(dataset), file |-> file]
    /\ pc' = "done"
    /\ UNCHANGED << req, srv, resp, cli, cors, session, roi, page, conc >>

\* The CORS middleware decides on a request that carries an Origin header.
CorsRequest ==
    /\ pc = "idle"
    /\ \E origin \in Origins :
         cors' = [origin |-> origin, allowed |-> is_allowed_origin(origin)]
    /\ pc' = "done"
    /\ UNCHANGED << req, disk, srv, resp, cli, app, session, roi, page, conc >>

\* The interaction is over; the next one starts from nothing but the
\* session state.
Rerun ==
    /\ pc = "done"
    /\ pc' = "idle"
    /\ req' = Nil /\ disk' = Nil /\ srv' = Nil /\ resp' = Nil
    /\ cli' = Nil /\ app' = Nil /\ cors' = Nil
    /\ roi' = Nil /\ page' = Nil /\ conc' = Nil
    /\ UNCHANGED session

Next ==
    \/ Request
    \/ Serve
    \/ NetworkFailure
    \/ ServiceSilent
    \/ ForeignResponse
    \/ ClientGetRaster
    \/ ClientGetGeojson
    \/ ClientPlot
    \/ AppRaster
    \/ AppVector
    \/ CorsRequest
    \/ Rerun

Spec == Init /\ [][Next]_vars

(***************************************************************************)
(* A page of a dashboard: the script evaluates its tabs in order, each on  *)
(* what its own file or its own request gives.                             *)
(***************************************************************************)
\* The year each selectbox of a page shows when the page is opened.
PageYear == 2010

\* What the page keeps of an item it has evaluated.
PageSummary(it, good, r) ==
    [item |-> it, good |-> good, loaded |-> r.loaded, rendered |-> r.rendered]

\* The file holds a layer with records, or a raster.
GoodFile(file) ==
    \/ file.kind = "raster"
    \/ file.kind = "vector" /\ Len(file.rows) > 0

\* The user opens a dashboard with some of the vector layers ticked.
PageStart ==
    /\ pc = "idle"
    /\ \/ \E shown \in SUBSET VectorEndpoints :
            page' = [mode |-> "frontend", items |-> FrontendPageItems(shown),
                     done |-> << >>, last |-> Nil, aborted |-> FALSE]
       \/ \E shown \in SUBSET VectorDatasets :
            page' = [mode |-> "app", items |-> AppPageItems(shown),
                     done |-> << >>, last |-> Nil, aborted |-> FALSE]
    /\ pc' = "page"
    /\ UNCHANGED << req, disk, srv, resp, cli, app, cors, session, roi, conc >>

\* The next item of the client's page: its request is answered by the
\* Data Service for the file its path holds.
PageStepServed ==
    /\ pc = "page"
    /\ page.mode = "frontend"
    /\ LET it == page.items[Len(page.done) + 1] IN
       \E file \in PageFiles(it.name) :
          LET params == IF it.name \in RasterEndpoints
                        THEN [year |-> PageYear] ELSE NoParams
              h == Route(it.name, params, file)
              r == FrontendItem(it, FastAPIResponse(h.out))
          IN /\ page' = [page EXCEPT
                           !.done = Append(@, PageSummary(it, GoodFile(file), r)),
                           !.last = [item |-> it, file |-> file, srv |-> h,
                                     resp |-> FastAPIResponse(h.out), result |-> r],
                           !.aborted = r.raised]
             /\ pc' = IF r.raised \/ Len(page.done) + 1 = Len(page.items)
                      THEN "done" ELSE "page"
    /\ UNCHANGED << req, disk, srv, resp, cli, app, cors, session, roi, conc >>

\* The next item of the client's page: its request fails on the network,
\* or another host answers it.
PageStepUnserved ==
    /\ pc = "page"
    /\ page.mode = "frontend"
    /\ LET it == page.items[Len(page.done) + 1] IN
       \E answer \in {NetworkException("ConnectionError"),
                      HttpResponse(404, FALSE, [text |-> "Not Found"])} :
          LET r == FrontendItem(it, answer)
          IN /\ page' = [page EXCEPT
                           !.done = Append(@, PageSummary(it, FALSE, r)),
                           !.last = [item |-> it, file |-> Nil, srv |-> Nil,
                                     resp |-> answer, result |-> r],
                           !.aborted = r.raised]
             /\ pc' = IF r.raised \/ Len(page.done) + 1 = Len(page.items)
                      THEN "done" ELSE "page"
    /\ UNCHANGED << req, disk, srv, resp, cli, app, cors, session, roi, conc >>

\* The next item of the standalone dashboard's page, on the file its path
\* holds.
PageStepApp ==
    /\ pc = "page"
    /\ page.mode = "app"
    /\ LET it == page.items[Len(page.done) + 1] IN
       \E file \in PageFiles(it.name) :
          LET r == AppItem(it, PageYear, file)
          IN /\ page' = [page EXCEPT
                           !.done = Append(@, PageSummary(it, GoodFile(file), r)),
                           !.last = [item |-> it, file |-> file, srv |-> Nil,
                                     resp |-> Nil, result |-> r],
                           !.aborted = r.raised]
             /\ pc' = IF r.raised \/ Len(page.done) + 1 = Len(page.items)
                      THEN "done" ELSE "page"
    /\ UNCHANGED << req, disk, srv, resp, cli, app, cors, session, roi, conc >>

NextPage ==
    \/ PageStart
    \/ PageStepServed
    \/ PageStepUnserved
    \/ PageStepApp
    \/ Rerun

SpecPage == Init /\ [][NextPage]_vars

(***************************************************************************)
(* The ROI tool: the script evaluates the screen the sidebar selects; the  *)
(* analysis and the comparison wait for the platform at each getInfo().    *)
(***************************************************************************)
\* The dates of the analysis screen: its defaults, and a start after the end.
AnalysisPeriods ==
    {[start |-> Date(2010, 1, 1), end |-> Date(2020, 12, 31)],
     [start |-> Date(2021, 1, 1), end |-> Date(2020, 12, 31)]}

\* What st.multiselect returns: the variables in the order selected.
VariableSelections ==
    {<< >>, << "GPP (MODIS)" >>, << "NDVI (MODIS)" >>,
     << "GPP (MODIS)", "NDVI (MODIS)" >>, << "NDVI (MODIS)", "GPP (MODIS)" >>}

\* The outcomes of one getInfo(): the exception it raised, or the images of
\* the filtered collection (the answers of one run hold at most MaxImages
\* images in all).
PlatformAnswers(left) ==
    {Raise("EEException")} \cup {Ok(images) : images \in ImageLists(left)}

\* The map screen is evaluated.
MapInteraction ==
    /\ pc = "idle"
    /\ \E map_raises \in BOOLEAN, pressed \in BOOLEAN, html_raises \in BOOLEAN :
       \E drawn \in {Raise("AttributeError")} \cup {Ok(l) : l \in DrawnFeatureLists} :
          LET screen == MapScreen(session.roi_coords, map_raises, pressed,
                                  drawn, html_raises)
          IN /\ roi' = [run |-> screen,
                        inputs |-> [map_raises |-> map_raises, pressed |-> pressed,
                                    drawn |-> drawn],
                        images |-> 0]
             /\ session' = [session EXCEPT !.roi_coords = screen.roi_coords]
    /\ pc' = "done"
    /\ UNCHANGED << req, disk, srv, resp, cli, app, cors, page, conc >>

\* 'Ejecutar Análisis' is pressed on the analysis screen.
AnalysisRun ==
    /\ pc = "idle"
    /\ \E period \in AnalysisPeriods, variable \in Variables :
          roi' = [run |-> AnalysisStart(session.roi_coords, period.start,
                                        period.end, variable),
                  inputs |-> [period |-> period], images |-> 0]
    /\ pc' = "asking"
    /\ UNCHANGED << req, disk, srv, resp, cli, app, cors, session, page, conc >>

\* 'Comparar Períodos' is pressed on the comparison screen.
CompareRun ==
    /\ pc = "idle"
    /\ \E variables \in VariableSelections :
          /\ roi' = [run |-> CompareStart(session.roi_coords, variables),
                     inputs |-> Nil, images |-> 0]
          /\ pc' = IF Len(variables) = 0 THEN "done" ELSE "asking"
    /\ UNCHANGED << req, disk, srv, resp, cli, app, cors, session, page, conc >>

\* The platform answers the getInfo() the screen waits for, or the call
\* raises; the screen goes on to its next getInfo() or to its end.
PlatformAnswer ==
    /\ pc = "asking"
    /\ \E answer \in PlatformAnswers(MaxImages - roi.images) :
       \E next \in IF roi.run.screen = "Análisis de Datos"
                   THEN AnalysisAnswer(roi.run, answer)
                   ELSE CompareAnswer(roi.run, answer) :
          /\ roi' = [roi EXCEPT !.run = next,
                                !.images = @ + IF answer.ok THEN Len(answer.val) ELSE 0]
          /\ pc' = IF RunFinished(next) THEN "done" ELSE "asking"
    /\ UNCHANGED << req, disk, srv, resp, cli, app, cors, session, page, conc >>

NextRoi ==
    \/ MapInteraction
    \/ AnalysisRun
    \/ CompareRun
    \/ PlatformAnswer
    \/ Rerun

SpecRoi == Init /\ [][NextRoi]_vars

\* What st.session_state['roi_coords'] can hold when a screen is evaluated:
\* nothing, the coordinates of a drawn feature, or coordinates from which
\* no polygon can be built.
SessionCoordinates == {NoRoi} \cup DrawnCoordinates \cup {UnreadableCoordinates}

\* The ROI tool evaluated on a session that holds any of these.
InitSession ==
    /\ pc = "idle"
    /\ req = Nil /\ disk = Nil /\ srv = Nil /\ resp = Nil
    /\ cli = Nil /\ app = Nil /\ cors = Nil
    /\ session \in {[roi_coords |-> c] : c \in SessionCoordinates}
    /\ roi = Nil /\ page = Nil /\ conc = Nil

SpecSession == InitSession /\ [][NextRoi]_vars

(***************************************************************************)
(* The Data Service under two requests at once.                            *)
(***************************************************************************)
\* Two requests arrive; files is what the paths they resolve hold.
ConcStart ==
    /\ pc = "idle"
    /\ \E r1 \in ConcRequests, r2 \in ConcRequests :
       \E files \in [{HandlerPath(r1), HandlerPath(r2)} ->
                        PageRasterFiles \cup PageVectorFiles] :
          /\ files[HandlerPath(r1)] \in PageFiles(r1.endpoint)
          /\ files[HandlerPath(r2)] \in PageFiles(r2.endpoint)
          /\ conc' = [files |-> files, files0 |-> files,
                      handlers |-> << NewHandler(r1), NewHandler(r2) >>,
                      log |-> << >>]
    /\ pc' = "serving"
    /\ UNCHANGED << req, disk, srv, resp, cli, app, cors, session, roi, page >>

\* pc of the whole service once a handler has stepped.
ConcPc(handlers) ==
    IF \A i \in 1..Len(handlers) : handlers[i].stage = "done"
    THEN "done" ELSE "serving"

\* A handler checks that its path exists.
ConcCheck ==
    /\ pc = "serving"
    /\ \E i \in 1..2 :
          /\ conc.handlers[i].stage = "new"
          /\ conc' = [conc EXCEPT
                        !.handlers[i] = HandlerCheck(conc.handlers[i], conc.files)]
          /\ pc' = ConcPc(conc'.handlers)
    /\ UNCHANGED << req, disk, srv, resp, cli, app, cors, session, roi, page >>

\* A handler enters its loader, which logs the path it was given.
ConcEnter ==
    /\ pc = "serving"
    /\ \E i \in 1..2 :
          /\ conc.handlers[i].stage = "checked"
          /\ conc' = [conc EXCEPT !.handlers[i].stage = "loading",
                                  !.log = Append(@, conc.handlers[i].path)]
    /\ pc' = "serving"
    /\ UNCHANGED << req, disk, srv, resp, cli, app, cors, session, roi, page >>

\* A handler's loader reads its file and the handler returns.
ConcRead ==
    /\ pc = "serving"
    /\ \E i \in 1..2 :
          /\ conc.handlers[i].stage = "loading"
          /\ conc' = [conc EXCEPT
                        !.handlers[i] = HandlerRead(conc.handlers[i], conc.files,
                                                    conc.log)]
          /\ pc' = ConcPc(conc'.handlers)
    /\ UNCHANGED << req, disk, srv, resp, cli, app, cors, session, roi, page >>

NextConc ==
    \/ ConcStart
    \/ ConcCheck
    \/ ConcEnter
    \/ ConcRead
    \/ Rerun

SpecConc == Init /\ [][NextConc]_vars

(***************************************************************************)
(* The Data Service while the data directory changes under it: another     *)
(* process removes or replaces a file between two steps of a handler.      *)
(***************************************************************************)
\* The file at the path of a request is removed or replaced (once in the
\* life of the requests being handled).
FileChange ==
    /\ pc = "serving"
    /\ conc.files = conc.files0
    /\ \E i \in 1..2 : \E file \in PageFiles(conc.handlers[i].endpoint) :
          /\ file # conc.files[conc.handlers[i].path]
          /\ conc' = [conc EXCEPT !.files[conc.handlers[i].path] = file]
    /\ pc' = "serving"
    /\ UNCHANGED << req, disk, srv, resp, cli, app, cors, session, roi, page >>

NextFs ==
    \/ ConcStart
    \/ ConcCheck
    \/ ConcEnter
    \/ ConcRead
    \/ FileChange
    \/ Rerun

SpecFs == Init /\ [][NextFs]_vars

(***************************************************************************)
(* The properties.                                                         *)
(***************************************************************************)
\* The request was handled by the Data Service (not lost, not answered by
\* another host).
Served == srv # Nil

ServedRaster == Served /\ req.endpoint \in RasterEndpoints
ServedVector == Served /\ req.endpoint \in VectorEndpoints

\* The client finished get_raster on a response that the Data Service
\* built from a raster file.
DecodedServedRaster ==
    pc = "done" /\ ServedRaster /\ disk.file.kind = "raster"

\* C1: for every 2-D raster array of every dtype, encoding it as the Data
\* Service does (row-major bytes, base64, shape, metadata dtype) and
\* decoding it as get_raster does (b64decode, frombuffer with the metadata
\* dtype, reshape) gives an array of the same shape whose cells are those of
\* the original.  Cells are compared by content (a float by its bits, so a
\* NaN cell is the cell it was), and the raw bytes agree.
C1_RoundTrip ==
    DecodedServedRaster =>
        /\ cli.ok
        /\ cli.arr.shape = disk.file.band1.shape
        /\ cli.arr.dtype = disk.file.band1.dtype
        /\ cli.arr.rows = disk.file.band1.rows
        /\ tobytes(cli.arr) = tobytes(disk.file.band1)

\* A 2 x 2 float32 raster that holds a NaN went through the round trip.
C1_Witness ==
    /\ DecodedServedRaster
    /\ cli.ok
    /\ disk.file.band1.dtype = "float32"
    /\ disk.file.band1.shape = << 2, 2 >>
    /\ disk.file.band1.rows[1][2] = [s |-> 0, e |-> 255, m |-> 4194304]
    /\ disk.file.band1.rows[2][1] = [s |-> 0, e |-> 127, m |-> 0]

\* C2: on every endpoint and for every year, a request whose resolved path
\* holds no file is answered with the error-shaped object and raises no
\* fault, and the Access component is called only when the existence check
\* succeeded.
C2_MissingFileIsErrorObject ==
    Served =>
        /\ disk.file.kind = "absent" =>
              /\ srv.out.ok
              /\ DOMAIN srv.out.val = {"error"}
              /\ ~srv.access
              /\ resp.json /\ resp.body = srv.out.val
        /\ srv.access => (srv.exists /\ disk.file.kind # "absent")

\* /rasters/pop?year=2015 was answered while its file is missing.
C2_Witness ==
    /\ Served
    /\ req.endpoint = "/rasters/pop"
    /\ req.params = [year |-> 2015]
    /\ disk.file.kind = "absent"
    /\ "error" \in DOMAIN resp.body

\* The dataset behind each endpoint.
EndpointDataset(endpoint) ==
    CASE endpoint = "/admin/districts"   -> "districts"
      [] endpoint = "/admin/region"      -> "region"
      [] endpoint = "/roads"             -> "roads"
      [] endpoint = "/water"             -> "streams"
      [] endpoint = "/rasters/landcover" -> "landcover"
      [] endpoint = "/rasters/gpp"       -> "gpp"
      [] endpoint = "/rasters/precip"    -> "precip"
      [] endpoint = "/rasters/pop"       -> "pop"

DatasetEndpoint(dataset) ==
    CHOOSE endpoint \in Endpoints : EndpointDataset(endpoint) = dataset

\* The file path conventions as they are documented.
DocumentedPath(dataset, year) ==
    CASE dataset = "districts" -> "Admin_layers/Assaba_Districts_layer.shp"
      [] dataset = "region"    -> "Admin_layers/Assaba_Region_layer.shp"
      [] dataset = "roads"     -> "Streamwater_Line_Road_Network/Main_Road.shp"
      [] dataset = "streams"   -> "Streamwater_Line_Road_Network/Streamwater.shp"
      [] dataset = "landcover" -> "Modis_Land_Cover_Data/" \o ToString(year) \o "LCT.tif"
      [] dataset = "gpp" ->
            "MODIS_Gross_Primary_Production_GPP/" \o ToString(year) \o "_GP.tif"
      [] dataset = "precip" -> "Climate_Precipitation_Data/" \o ToString(year) \o "R.tif"
      [] dataset = "pop" ->
            "Gridded_Population_Density_Data/mrt_pd_" \o ToString(year) \o "_1km.tif"

\* C3: when the file of an endpoint is absent, the response body is exactly
\* {"error": "No se encontró " + the resolved relative path} (for
\* /admin/districts the path is Admin_layers/Assaba_Districts_layer.shp) and
\* it is delivered with HTTP status 200.
C3_ErrorBodyAndStatus ==
    (Served /\ disk.file.kind = "absent") =>
        /\ resp = HttpResponse(200, TRUE,
              [error |-> "No se encontró "
                  \o DocumentedPath(EndpointDataset(req.endpoint), YearParam(req.params))])
        /\ req.endpoint = "/admin/districts" =>
              resp.body = [error |-> "No se encontró Admin_layers/Assaba_Districts_layer.shp"]

\* /admin/districts was answered while the districts file is missing.
C3_Witness ==
    /\ Served
    /\ req.endpoint = "/admin/districts"
    /\ disk.file.kind = "absent"
    /\ resp.status = 200

\* C4: the mapping from (dataset, year) to the file path follows the
\* documented templates, and for every dataset and year the Data Service
\* and the standalone dashboard resolve the same path.
C4_PathMapping ==
    /\ Served =>
          /\ srv.path = DocumentedPath(EndpointDataset(req.endpoint), YearParam(req.params))
          /\ srv.path = IF req.endpoint \in RasterEndpoints
                        THEN AppRasterPath(EndpointDataset(req.endpoint),
                                           YearParam(req.params))
                        ELSE AppVectorPath(EndpointDataset(req.endpoint))
    /\ app # Nil =>
          /\ app.path = DocumentedPath(app.dataset, app.year)
          /\ app.path = Route(DatasetEndpoint(app.dataset), [year |-> app.year],
                              AbsentFile).path

\* The standalone dashboard resolved the population raster of 2015.
C4_Witness ==
    /\ app # Nil
    /\ app.dataset = "pop"
    /\ app.year = 2015
    /\ app.path = "Gridded_Population_Density_Data/mrt_pd_2015_1km.tif"

\* C5: for every vector file the Data Service serves, the layer that is
\* serialised has CRS EPSG:4326: assumed when the file declares none,
\* reprojected otherwise, on every path through load_shapefile_as_geojson,
\* the one where reprojection reports an error included.
C5_OutputCrsIsTarget ==
    (ServedVector /\ disk.file.kind = "vector") =>
        /\ srv.out.ok
        /\ srv.out.gdf.crs = "EPSG:4326"
        /\ \A i \in 1..Len(srv.out.gdf.rows) :
              ~srv.out.gdf.rows[i].geometry.null =>
                  (disk.file.crs # NoCRS =>
                      srv.out.gdf.rows[i].geometry.crs = "EPSG:4326")

\* C6: for every non-empty vector layer, the GeoJSON document the Data
\* Service returns has as many features as the file has records.
C6_FeatureCountPreserved ==
    (ServedVector /\ disk.file.kind = "vector" /\ Len(disk.file.rows) > 0) =>
        /\ srv.out.ok
        /\ Len(srv.out.val.features) = Len(disk.file.rows)
        /\ resp.json /\ Len(resp.body.features) = Len(disk.file.rows)

\* A reprojected layer with a datetime column and two records, one of them
\* without a geometry, was served.
C6_Witness ==
    /\ ServedVector
    /\ disk.file.kind = "vector"
    /\ disk.file.crs = "EPSG:32628"
    /\ disk.file.dated
    /\ Len(disk.file.rows) = 2
    /\ disk.file.rows[1].geometry.null
    /\ ~disk.file.rows[2].geometry.null
    /\ Len(resp.body.features) = 2

\* C7: the client reconstructs an array only with the dtype that the
\* payload's metadata declares: a payload whose metadata has no dtype, or a
\* null one, is not reconstructed with a default dtype.
C7_DeclaredDtypeOnly ==
    (pc = "done" /\ cli # Nil /\ req.endpoint \in RasterEndpoints /\ cli.ok) =>
        /\ "dtype" \in DOMAIN resp.body.metadata
        /\ resp.body.metadata.dtype # None
        /\ cli.arr.dtype = resp.body.metadata.dtype

\* C8: every payload a raster endpoint produces is self-consistent: shape
\* is the (rows, cols) of the band read, it equals (metadata.height,
\* metadata.width), and the decoded bytes number
\* shape[0] * shape[1] * itemsize(metadata.dtype).
C8_PayloadSelfConsistent ==
    (ServedRaster /\ disk.file.kind = "raster") =>
        /\ srv.out.ok
        /\ srv.out.val.shape = disk.file.band1.shape
        /\ srv.out.val.shape = << srv.out.val.metadata.height, srv.out.val.metadata.width >>
        /\ b64decode(srv.out.val.base64_data).ok
        /\ Len(b64decode(srv.out.val.base64_data).val)
             = srv.out.val.shape[1] * srv.out.val.shape[2]
               * ItemSize(srv.out.val.metadata.dtype)

\* A 1 x 3 int16 raster was served (6 bytes, the rows and cols differ).
C8_Witness ==
    /\ ServedRaster
    /\ disk.file.kind = "raster"
    /\ disk.file.band1.dtype = "int16"
    /\ srv.out.val.shape = << 1, 3 >>
    /\ Len(srv.out.val.base64_data) = 8

\* C9: the cross-origin configuration admits every request origin.
C9_AnyOriginAdmitted ==
    cors # Nil => cors.allowed

\* C10: in every caller of Raster Access and Vector Access (each endpoint of
\* the Data Service, each tab of the standalone dashboard) a file that is
\* missing, or that exists but cannot be read, ends in a warning or an error
\* value and no exception leaves the caller.
C10_UnreadableFileIsRecovered ==
    /\ (Served /\ disk.file.kind \in {"absent", "corrupt"}) => srv.out.ok
    /\ (app # Nil /\ disk.file.kind \in {"absent", "corrupt"}) =>
          (~app.raised /\ ~app.loaded.ok)


\* A message of the given level is among those displayed or logged.
HasLevel(messages, level) ==
    \E i \in 1..Len(messages) : messages[i].level = level

RoiQueryScreen ==
    roi # Nil /\ roi.run.screen \in {"Análisis de Datos", "Comparativa de Períodos"}

\* C12: on each of the three screens of the ROI tool, an exception raised
\* by the screen body (a failing platform query in particular) is caught by
\* the screen's handler, logged and displayed as an error message; the
\* failed query is not sent again and no exception leaves the screen.
C12_ScreenHandlerCatches ==
    roi # Nil =>
        /\ ~roi.run.raised
        /\ roi.run.failed =>
              /\ HasLevel(roi.run.ui, "error")
              /\ HasLevel(roi.run.log, "exception")
              /\ pc = "done"
        /\ RoiQueryScreen => roi.run.sent <= Len(roi.run.queries)

\* C13: an analysis or a comparison run while the session holds no ROI
\* queries the rectangle [-16.0, 16.0, -14.0, 18.0], shows a warning, and
\* ends without an exception leaving the screen.
C13_DefaultRectangleWhenNoRoi ==
    (RoiQueryScreen /\ session.roi_coords = None) =>
        /\ roi.run.roi = [type |-> "Rectangle",
                          coordinates |-> "[-16.0, 16.0, -14.0, 18.0]"]
        /\ \A q \in 1..Len(roi.run.queries) :
              /\ roi.run.queries[q].geometry = roi.run.roi
              /\ roi.run.queries[q].bounds = roi.run.roi
        /\ \E i \in 1..Len(roi.run.ui) :
              roi.run.ui[i] = [level |-> "warning",
                  text |-> "No se ha definido una ROI. Se usará una región por defecto."]
        /\ ~roi.run.raised

\* C14: every point of a series that reaches a table, a chart or the CSV
\* export of the analysis and comparison screens has a value: the features
\* whose reduction gave null never reach the frame.
C14_NoNullPoint ==
    RoiQueryScreen =>
        /\ \A s \in 1..Len(roi.run.series) :
              \A i \in 1..Len(roi.run.series[s].rows) :
                  ~roi.run.series[s].rows[i].Valor.null
        /\ \A i \in 1..Len(roi.run.csv) : ~roi.run.csv[i].Valor.null
        /\ \A f \in 1..Len(roi.run.frames) :
              ~roi.run.frames[f].none =>
                  \A i \in 1..Len(roi.run.frames[f].rows) :
                      ~roi.run.frames[f].rows[i].Valor.null

\* An analysis displayed a series of two points out of three images: the
\* reduction of one image gave null.
C14_Witness ==
    /\ pc = "done"
    /\ RoiQueryScreen
    /\ roi.run.screen = "Análisis de Datos"
    /\ roi.images = 3
    /\ Len(roi.run.answers[1]) = 2
    /\ Len(roi.run.series) = 1
    /\ Len(roi.run.series[1].rows) = 2

\* rows holds the (date, value) pairs of the features, each once, in some
\* order.
SamePoints(rows, features) ==
    /\ Len(rows) = Len(features)
    /\ \E p \in Permutations1(Len(rows)) :
          \A i \in 1..Len(rows) :
              /\ rows[i].Fecha.day * MsPerDay + rows[i].Fecha.ms
                    = features[p[i]].properties.date
              /\ rows[i].Valor = features[p[i]].properties.value

\* C15: every series of the analysis and comparison screens is displayed,
\* charted and exported in ascending order of date, whatever the order in
\* which the platform returned the features, and it holds the (date, value)
\* pairs of the features returned, each once.
C15_SeriesSortedByDate ==
    RoiQueryScreen =>
        /\ \A s \in 1..Len(roi.run.series) :
              LET rows == roi.run.series[s].rows IN
              /\ \A i \in 1..Len(rows), j \in 1..Len(rows) :
                    i < j =>
                       \/ rows[i].Fecha.day < rows[j].Fecha.day
                       \/ /\ rows[i].Fecha.day = rows[j].Fecha.day
                          /\ rows[i].Fecha.ms <= rows[j].Fecha.ms
              /\ SamePoints(rows, roi.run.answers[roi.run.series[s].query])
        /\ roi.run.screen = "Análisis de Datos" =>
              \A s \in 1..Len(roi.run.series) : roi.run.csv = roi.run.series[s].rows

\* A comparison displayed the two series of one variable; the platform
\* returned the two features of the first period latest first, and the
\* series has them earliest first, each date with its own value.
C15_Witness ==
    /\ pc = "done"
    /\ RoiQueryScreen
    /\ roi.run.screen = "Comparativa de Períodos"
    /\ Len(roi.run.series) = 2
    /\ Len(roi.run.answers[1]) = 2
    /\ roi.run.answers[1][1].properties = [date |-> MsPerDay, value |-> Value(5)]
    /\ roi.run.answers[1][2].properties = [date |-> 0, value |-> Value(7)]
    /\ roi.run.series[1].rows[1] = [Fecha |-> [day |-> 0, ms |-> 0], Valor |-> Value(7)]
    /\ roi.run.series[1].rows[2] = [Fecha |-> [day |-> 1, ms |-> 0], Valor |-> Value(5)]

\* C16: every call of the client to the Data Service (get_geojson and
\* get_raster) is issued with a timeout, so that the screen is never left
\* blocked by a service that does not answer.
C16_EveryCallHasTimeout ==
    /\ req # Nil => req.timeout.set
    /\ pc # "hung"

\* C17: under every interleaving of two requests, the response of each is
\* the one the same request gets when it runs alone against the same files,
\* and no handler changes a file.
C17_StatelessUnderConcurrency ==
    conc # Nil =>
        /\ conc.files = conc.files0
        /\ \A i \in 1..Len(conc.handlers) :
              conc.handlers[i].stage = "done" =>
                  conc.handlers[i].out =
                      Route(conc.handlers[i].endpoint, conc.handlers[i].params,
                            conc.files0[conc.handlers[i].path]).out

\* The roads layer was returned by its handler after the handler of a
\* raster had logged its own path and before it read its file.
C17_Witness ==
    /\ conc # Nil
    /\ conc.handlers[1].endpoint = "/roads"
    /\ conc.handlers[1].stage = "done"
    /\ conc.handlers[1].out.ok
    /\ "features" \in DOMAIN conc.handlers[1].out.val
    /\ Len(conc.handlers[1].out.val.features) = 1
    /\ conc.handlers[2].endpoint = "/rasters/gpp"
    /\ conc.handlers[2].stage = "loading"
    /\ conc.log = << "Streamwater_Line_Road_Network/Main_Road.shp",
                     "MODIS_Gross_Primary_Production_GPP/2015_GP.tif" >>

\* C18: a press of 'Guardar ROI' with at least one drawn feature leaves the
\* coordinates of the first drawn feature in the session; the ROI of the
\* session changes by such a save only; every analysis or comparison run
\* while the session holds a ROI queries the polygon of those coordinates
\* and not the default rectangle; and the session holds nothing else, each
\* interaction starting from the session alone.
C18_SavedRoiIsUsed ==
    [][/\ DOMAIN session' = {"roi_coords"}
       /\ pc' = "idle" => roi' = Nil
       /\ (/\ roi' # Nil
           /\ roi'.run.screen = "Mapa Interactivo"
           /\ ~roi'.inputs.map_raises
           /\ roi'.inputs.pressed
           /\ roi'.inputs.drawn.ok
           /\ Len(roi'.inputs.drawn.val) > 0) =>
              session'.roi_coords = roi'.inputs.drawn.val[1].geometry.coordinates
       /\ session' # session =>
              /\ roi'.run.screen = "Mapa Interactivo"
              /\ roi'.inputs.pressed
              /\ roi'.inputs.drawn.ok
              /\ Len(roi'.inputs.drawn.val) > 0
       /\ (/\ roi' # Nil
           /\ roi'.run.screen \in {"Análisis de Datos", "Comparativa de Períodos"}
           /\ session'.roi_coords # None) =>
              /\ roi'.run.roi = [type |-> "Polygon",
                                 coordinates |-> session'.roi_coords]
              /\ \A q \in 1..Len(roi'.run.queries) :
                    roi'.run.queries[q].geometry = roi'.run.roi
              /\ \A i \in 1..Len(roi'.run.ui) :
                    roi'.run.ui[i].text #
                        "No se ha definido una ROI. Se usará una región por defecto."
      ]_vars

\* An analysis ran with the polygon saved earlier in the session (the
\* first of two drawn features), and displayed a series.
C18_Witness ==
    /\ pc = "done"
    /\ RoiQueryScreen
    /\ roi.run.screen = "Análisis de Datos"
    /\ session.roi_coords = "[[[-13, 17], [-12, 17], [-12, 18], [-13, 17]]]"
    /\ roi.run.queries[1].geometry.coordinates = session.roi_coords
    /\ roi.run.queries[1].geometry.type = "Polygon"
    /\ Len(roi.run.series) = 1

\* The item of the client's page just evaluated was answered by the Data
\* Service.
PageServed ==
    /\ page # Nil
    /\ page.mode = "frontend"
    /\ page.last # Nil
    /\ page.last.srv # Nil

\* C19: in client mode, every error object that the Data Service returns
\* for a missing file is shown to the user as a warning, for the raster
\* tabs, for the layers of the vector map tab and for the district
\* information tab, and it is not fatal.
C19_ErrorObjectIsWarned ==
    (PageServed /\ page.last.resp.json /\ "error" \in DOMAIN page.last.resp.body) =>
        /\ HasLevel(page.last.result.ui, "warning")
        /\ ~page.last.result.raised

\* C20: a vector file that exists and holds no record is a valid result:
\* the Data Service logs a warning and returns a FeatureCollection with no
\* feature (status 200, no error object); the client takes it as a layer
\* that was loaded, with zero features, displays no error and, on the
\* district information tab, tells it apart from a request that failed.
C20_EmptyLayerIsValid ==
    (PageServed /\ page.last.file.kind = "vector" /\ Len(page.last.file.rows) = 0) =>
        /\ page.last.srv.out.ok
        /\ HasLevel(page.last.srv.out.log, "warning")
        /\ page.last.srv.out.val = [type |-> "FeatureCollection", features |-> << >>]
        /\ page.last.resp.status = 200
        /\ page.last.resp.body = page.last.srv.out.val
        /\ page.last.result.loaded
        /\ page.last.result.data = page.last.resp.body
        /\ ~HasLevel(page.last.result.ui, "error")
        /\ \A i \in 1..Len(page.last.result.ui) :
              page.last.result.ui[i].text #
                  "No se pudo obtener la información de distritos."

\* The district information tab was evaluated on a layer without records
\* and displayed the warning of a layer with no feature.
C20_Witness ==
    /\ PageServed
    /\ page.last.item.tab = 5
    /\ page.last.file.kind = "vector"
    /\ Len(page.last.file.rows) = 0
    /\ page.last.result.ui =
          << [level |-> "warning",
              text |-> "No se encontró ninguna feature en /admin/districts."] >>

\* A vector layer of the standalone dashboard was loaded and handed to the
\* map widget.
AppLayerLoaded ==
    app # Nil /\ app.dataset \in VectorDatasets /\ app.loaded.ok

\* C21: the layer that load_shapefile of the standalone dashboard hands to
\* the map widget has CRS EPSG:4326 (WGS84), assumed when the file declares
\* none and reprojected otherwise, which is the CRS of the layer the Data
\* Service delivers for the same file.
C21_StandaloneLayerIsWgs84 ==
    AppLayerLoaded =>
        /\ app.loaded.gdf.crs = "EPSG:4326"
        /\ app.loaded.gdf.crs = load_shapefile_as_geojson(disk.file).gdf.crs
        /\ \A i \in 1..Len(app.loaded.gdf.rows) :
              ~app.loaded.gdf.rows[i].geometry.null =>
                  app.loaded.gdf.rows[i].geometry.crs = "EPSG:4326"

\* The layers Vector Access returned in this interaction: the one the Data
\* Service serialised, or the one the standalone dashboard loaded.
ReturnedLayers ==
    IF ServedVector /\ disk.file.kind = "vector" /\ srv.out.ok THEN {srv.out.gdf}
    ELSE IF AppLayerLoaded THEN {app.loaded.gdf}
    ELSE {}

\* The text YYYY-MM-DD HH:MM:SS of the timestamps the files hold.
FormattedText(t) ==
    CASE t = Timestamp(2020, 1, 2, 3, 4, 5) -> "2020-01-02 03:04:05"

\* What C22 says of the fields that were not date/time-typed and of the
\* types of all the fields: the layer has the fields and the records of the
\* file, none of its fields is date/time-typed, and a field that was not
\* date/time-typed has the values it had.
FieldsKept(gdf, src) ==
    /\ DOMAIN gdf.columns = DOMAIN src.columns
    /\ Len(gdf.rows) = Len(src.rows)
    /\ \A c \in DOMAIN gdf.columns :
          /\ gdf.columns[c] # "datetime64[ns]"
          /\ src.columns[c] # "datetime64[ns]" =>
                /\ gdf.columns[c] = src.columns[c]
                /\ \A i \in 1..Len(src.rows) : gdf.rows[i].props[c] = src.rows[i].props[c]

\* C22 as stated: after Vector Access returns a layer, no field of the layer
\* is date/time-typed; every value of a field that was date/time-typed in
\* the file is text in the format YYYY-MM-DD HH:MM:SS, and every field that
\* was not date/time-typed is left unchanged.
C22_EveryDatetimeValueIsText ==
    \A gdf \in ReturnedLayers :
        LET src == read_file(disk.file).val IN
        /\ FieldsKept(gdf, src)
        /\ \A c \in DOMAIN src.columns : \A i \in 1..Len(src.rows) :
              src.columns[c] = "datetime64[ns]" =>
                  /\ ~gdf.rows[i].props[c].null
                  /\ ~src.rows[i].props[c].nat
                  /\ gdf.rows[i].props[c].str = FormattedText(src.rows[i].props[c])

\* C22, amended: after Vector Access returns a layer, no field of the layer
\* is date/time-typed; in a field that was date/time-typed every timestamp
\* is text in the format YYYY-MM-DD HH:MM:SS and every missing timestamp
\* (NaT) is a missing value, and every field that was not date/time-typed
\* is left unchanged.
C22_DatetimeFieldsBecomeText ==
    \A gdf \in ReturnedLayers :
        LET src == read_file(disk.file).val IN
        /\ FieldsKept(gdf, src)
        /\ \A c \in DOMAIN src.columns : \A i \in 1..Len(src.rows) :
              src.columns[c] = "datetime64[ns]" =>
                  IF src.rows[i].props[c].nat
                  THEN gdf.rows[i].props[c] = [null |-> TRUE]
                  ELSE gdf.rows[i].props[c]
                         = [null |-> FALSE, str |-> FormattedText(src.rows[i].props[c])]

\* The standalone dashboard loaded a layer with a datetime field whose two
\* records hold a timestamp and a missing one.
C22_Witness ==
    /\ AppLayerLoaded
    /\ disk.file.dated
    /\ Len(disk.file.rows) = 2
    /\ ~disk.file.rows[1].fecha.nat
    /\ disk.file.rows[2].fecha.nat
    /\ app.loaded.gdf.rows[1].props["fecha"].str = "2020-01-02 03:04:05"

\* The figures drawn in this interaction, each with the array the raster
\* file holds: by a raster tab of the standalone dashboard, or by a raster
\* tab of the client on an array that the Data Service built from the file.
FiguresDrawn ==
    IF app # Nil /\ app.dataset \in RasterDatasets /\ app.loaded.ok
    THEN {[figs |-> app.figs[1], source |-> disk.file.band1]}
    ELSE IF cli # Nil /\ ServedRaster /\ disk.file.kind = "raster" /\ cli.ok
            /\ "figs" \in DOMAIN cli
    THEN {[figs |-> cli.figs, source |-> disk.file.band1]}
    ELSE {}

\* C23: the grid handed to the heatmap is the raster with its row order
\* reversed: for an array of n rows, heatmap row i is array row n-1-i with
\* the column order unchanged, reversing the grid again gives back the
\* array, and the call leaves the input array as it was (the histogram is
\* computed from the unflipped values, in row-major order).
C23_HeatmapRowsReversed ==
    \A f \in FiguresDrawn :
        LET n == f.source.shape[1]
            z == f.figs.fig_map.z
        IN /\ Len(z) = n
           /\ \A i \in 1..n :
                 /\ Len(z[i]) = f.source.shape[2]
                 /\ \A j \in 1..f.source.shape[2] : z[i][j] = f.source.rows[n + 1 - i][j]
           /\ [i \in 1..n |-> z[n + 1 - i]] = f.source.rows
           /\ f.figs.data = f.source
           /\ Len(f.figs.fig_hist.x) = n * f.source.shape[2]
           /\ \A i \in 1..n : \A j \in 1..f.source.shape[2] :
                 f.figs.fig_hist.x[(i - 1) * f.source.shape[2] + j] = f.source.rows[i][j]

\* The client drew the figures of a 2 x 2 raster whose four cells are not
\* all the same.
C23_Witness ==
    /\ cli # Nil /\ ServedRaster /\ cli.ok /\ "figs" \in DOMAIN cli
    /\ disk.file.band1.shape = << 2, 2 >>
    /\ disk.file.band1.rows[1] # disk.file.band1.rows[2]
    /\ disk.file.band1.rows[1][1] # disk.file.band1.rows[1][2]
    /\ cli.figs.fig_map.z[1] = disk.file.band1.rows[2]

\* C24: the histogram is built with a bin count that defaults to 50, and
\* the total count over its bins is the number of finite cells of the
\* raster array: every finite cell is counted once, nothing else is.
C24_HistogramCountsFiniteCells ==
    \A f \in FiguresDrawn :
        /\ f.figs.fig_hist.nbins = 50
        /\ f.figs.fig_hist.total =
              Cardinality({ij \in (1..f.source.shape[1]) \X (1..f.source.shape[2]) :
                             IsFiniteCell(f.source.rows[ij[1]][ij[2]], f.source.dtype)})

\* The standalone dashboard drew the histogram of a float32 raster of three
\* cells, one of them NaN: the total is 2.
C24_Witness ==
    /\ app # Nil /\ app.dataset \in RasterDatasets /\ app.loaded.ok
    /\ disk.file.band1.dtype = "float32"
    /\ disk.file.band1.shape = << 1, 3 >>
    /\ disk.file.band1.rows[1][1].e = 255
    /\ disk.file.band1.rows[1][2].e # 255
    /\ disk.file.band1.rows[1][3].e # 255
    /\ app.figs[1].fig_hist.total = 2

\* The comparison screen is being evaluated; it got every answer it asked for.
CompareScreen == roi # Nil /\ roi.run.screen = "Comparativa de Períodos"

CompareFinished ==
    CompareScreen /\ ~roi.run.failed /\ Len(roi.run.answers) = Len(roi.run.queries)

\* The collection each variable of the comparison is read from.
VariableCollection(variable) ==
    CASE variable = "GPP (MODIS)"  -> "MODIS/006/MOD17A2H"
      [] variable = "NDVI (MODIS)" -> "MODIS/006/MOD13A2"

\* Chart c is the chart of the k-th selected variable: two lines with
\* distinct markers, the first with the points the platform returned to the
\* variable's query for period 1, the second with those of its query for
\* period 2.
ChartOfVariable(c, k) ==
    LET chart == roi.run.charts[c]
        var == roi.run.variables[k]
    IN /\ chart.ylabel = var
       /\ Len(chart.lines) = 2
       /\ chart.lines[1].marker # chart.lines[2].marker
       /\ chart.lines[1].label = "Período 1" /\ chart.lines[2].label = "Período 2"
       /\ roi.run.queries[2 * k - 1].collection = VariableCollection(var)
       /\ roi.run.queries[2 * k].collection = VariableCollection(var)
       /\ roi.run.queries[2 * k - 1].start = "2010-01-01"
       /\ roi.run.queries[2 * k - 1].end = "2015-12-31"
       /\ roi.run.queries[2 * k].start = "2016-01-01"
       /\ roi.run.queries[2 * k].end = "2020-12-31"
       /\ SamePoints(chart.lines[1].rows, roi.run.answers[2 * k - 1])
       /\ SamePoints(chart.lines[2].rows, roi.run.answers[2 * k])

\* 'Comparación completada.' is the last thing displayed once every variable
\* was processed, and is not displayed before.
CompletedAfterAll ==
    /\ CompareFinished =>
          roi.run.ui[Len(roi.run.ui)] = [level |-> "success", text |-> "Comparación completada."]
    /\ (CompareScreen /\ ~CompareFinished) =>
          \A i \in 1..Len(roi.run.ui) : roi.run.ui[i].text # "Comparación completada."

\* The selected variables for which a period returned points.
WithSomeData ==
    {k \in 1..Len(roi.run.variables) :
        Len(roi.run.answers[2 * k - 1]) > 0 \/ Len(roi.run.answers[2 * k]) > 0}

WithData ==
    {k \in 1..Len(roi.run.variables) :
        Len(roi.run.answers[2 * k - 1]) > 0 /\ Len(roi.run.answers[2 * k]) > 0}

C26_FileChangeEndsInObject ==
    (conc # Nil /\ conc.files # conc.files0) =>
        \A i \in 1..2 :
            (/\ conc.handlers[i].stage = "done"
             /\ GoodFile(conc.files0[conc.handlers[i].path])) =>
                conc.handlers[i].out.ok

\* C27: get_raster is total: for every outcome of the HTTP call (connection
\* failure, timeout, status other than 200, body that is not JSON, error
\* object, text that is not base64, bytes that do not match shape and
\* dtype, unknown dtype) it returns (array, metadata) with the shape of the
\* array equal to the payload's shape, or (None, None) after displaying a
\* message; it is never left waiting, and never returns an array of another
\* shape.
C27_GetRasterIsTotal ==
    /\ (pc = "hung") => req.endpoint \notin RasterEndpoints
    /\ (cli # Nil /\ req.endpoint \in RasterEndpoints) =>
          IF cli.ok
          THEN /\ cli.arr.shape = resp.body.shape
               /\ cli.metadata = resp.body.metadata
               /\ Len(cli.arr.rows) = resp.body.shape[1]
          ELSE Len(cli.ui) > 0

\* C28: the ROI of the session starts as None and is written only by a
\* 'Guardar ROI' press that finds at least one drawn feature: a press that
\* finds none shows a warning and leaves the stored ROI as it is, and
\* neither the analysis screen nor the comparison screen (their fallback to
\* the default rectangle included) ever changes the stored ROI.
C28_RoiWrittenOnlyBySave ==
    /\ session.roi_coords = None
    /\ [][/\ session'.roi_coords # session.roi_coords =>
                /\ roi'.run.screen = "Mapa Interactivo"
                /\ roi'.inputs.pressed
                /\ roi'.inputs.drawn.ok
                /\ Len(roi'.inputs.drawn.val) > 0
                /\ roi'.run.saved
          /\ (/\ roi' # Nil /\ roi' # roi
              /\ roi'.run.screen = "Mapa Interactivo"
              /\ ~roi'.run.failed
              /\ roi'.inputs.pressed
              /\ Len(roi'.inputs.drawn.val) = 0) =>
                /\ session' = session
                /\ \E i \in 1..Len(roi'.run.ui) :
                      roi'.run.ui[i] = [level |-> "warning",
                          text |-> "No se detectó ninguna ROI. Dibuja un polígono en el mapa."]
          /\ (/\ roi' # Nil
              /\ roi'.run.screen \in {"Análisis de Datos", "Comparativa de Períodos"}) =>
                session' = session
         ]_vars

\* 'Guardar ROI' was pressed with nothing drawn while the session held a
\* ROI: the ROI is still there.
C28_Witness ==
    /\ roi # Nil
    /\ roi.run.screen = "Mapa Interactivo"
    /\ ~roi.run.failed
    /\ roi.inputs.pressed
    /\ Len(roi.inputs.drawn.val) = 0
    /\ session.roi_coords = "[[[-13, 17], [-12, 17], [-12, 18], [-13, 17]]]"
    /\ HasLevel(roi.run.ui, "warning")

\* The run a query screen would start on a session without a ROI, for the
\* inputs of the run r.
RunWithoutRoi(r) ==
    IF r.run.screen = "Análisis de Datos"
    THEN AnalysisStart(NoRoi, r.inputs.period.start, r.inputs.period.end,
                       r.run.variables[1])
    ELSE CompareStart(NoRoi, r.run.variables)

\* No polygon can be built from the coordinates the session holds.
RoiCannotBeBuilt ==
    session.roi_coords # NoRoi /\ ~ee_Geometry_Polygon(session.roi_coords).ok

\* C29: when the session holds coordinates from which no polygon can be
\* built, an analysis or a comparison displays the error of get_drawn_roi
\* and logs it, no exception leaves get_drawn_roi, the run goes on with the
\* default rectangle exactly as the run of a session without a ROI (same
\* geometry, same queries, same warning), and the stored coordinates stay
\* as they are to the end of the run.
C29_UnreadableRoiFallsBack ==
    [][(/\ RoiCannotBeBuilt
        /\ roi' # Nil
        /\ roi'.run.screen \in {"Análisis de Datos", "Comparativa de Períodos"}) =>
           /\ session' = session
           /\ pc = "idle" =>
                /\ ~roi'.run.failed /\ ~roi'.run.raised
                /\ \E i \in 1..Len(roi'.run.ui) :
                      roi'.run.ui[i] = [level |-> "error",
                          text |-> "Error al crear la ROI con las coordenadas."]
                /\ HasLevel(roi'.run.log, "exception")
                /\ roi'.run.roi = [type |-> "Rectangle",
                                   coordinates |-> "[-16.0, 16.0, -14.0, 18.0]"]
                /\ LET without == RunWithoutRoi(roi')
                   IN /\ [roi'.run EXCEPT !.ui = without.ui, !.log = without.log]
                            = without
                      /\ \A i \in 1..Len(without.ui) :
                            \E j \in 1..Len(roi'.run.ui) :
                               roi'.run.ui[j] = without.ui[i]
           /\ pc = "asking" =>
                /\ roi'.run.roi = roi.run.roi
                /\ roi'.run.queries = roi.run.queries
      ]_vars

\* An analysis ran to its series on the default rectangle while the
\* session held coordinates from which no polygon can be built.
C29_Witness ==
    /\ pc = "done"
    /\ RoiQueryScreen
    /\ roi.run.screen = "Análisis de Datos"
    /\ session.roi_coords = "[-12.5, 16.5, 0.0]"
    /\ roi.run.queries[1].geometry.type = "Rectangle"
    /\ HasLevel(roi.run.log, "exception")
    /\ Len(roi.run.series) = 1

\* 'Ejecutar Análisis' was pressed with a start date after the end date.
InvertedAnalysis ==
    /\ RoiQueryScreen
    /\ roi.run.screen = "Análisis de Datos"
    /\ DateAfter(roi.inputs.period.start, roi.inputs.period.end)

\* C30: on the analysis screen a start date after the end date shows the
\* error 'La fecha de inicio debe ser anterior a la fecha de fin.' and the
\* analysis is not stopped: the query of the run carries the inverted
\* range as entered, and the run ends only after its getInfo() was sent.
C30_InvertedRangeStillQueried ==
    InvertedAnalysis =>
        /\ \E i \in 1..Len(roi.run.ui) :
              roi.run.ui[i] = [level |-> "error",
                  text |-> "La fecha de inicio debe ser anterior a la fecha de fin."]
        /\ Len(roi.run.queries) = 1
        /\ roi.run.queries[1].start = DateStr(roi.inputs.period.start)
        /\ roi.run.queries[1].end = DateStr(roi.inputs.period.end)
        /\ pc \in {"asking", "done"}
        /\ pc = "asking" => roi.run.sent = 0
        /\ pc = "done" => roi.run.sent = 1

\* The query from 2021-01-01 to 2020-12-31 was sent and answered.
C30_Witness ==
    /\ InvertedAnalysis
    /\ pc = "done"
    /\ roi.run.queries[1].start = "2021-01-01"
    /\ roi.run.queries[1].end = "2020-12-31"
    /\ roi.run.sent = 1
    /\ Len(roi.run.answers) = 1

=============================================================================
